---- MODULE Spec2Model ----
(***************************************************************************)
(* Chunked terrain generator of crnstc (src/crnstc/engine.py): the chunk   *)
(* store (GameEngine.get_chunk), chunk construction (Chunk.__init__), the  *)
(* per-cell surface extraction (numba_make_terrain_surfaces), the spawn    *)
(* probe (GameEngine.__init__) and the cube graph (src/crnstc/graph.py).   *)
(*                                                                         *)
(* Numbers.  The density sample of a lattice point is                      *)
(*     opensimplex * TERRAIN_HEIGHT_MULTIPLIER - z.                        *)
(* The model keeps samples as integers in units of 1/NoiseScale: the       *)
(* value stored for a lattice point is NoiseScale * sample, and the noise  *)
(* term NoiseScale * TERRAIN_HEIGHT_MULTIPLIER * opensimplex ranges over   *)
(* the integers of [-NoiseMax, NoiseMax].  Signs, zero tests and the       *)
(* interpolation quotient v0 / (v0 - v1) do not depend on the unit.        *)
(* CHUNK_SIZE and TERRAIN_HEIGHT_MULTIPLIER are scaled down from the       *)
(* values of definitions.py (16 and 10) to keep the lattices enumerable.   *)
(***************************************************************************)
EXTENDS Integers, Sequences, FiniteSets, TLC

CHUNK_SIZE == 2

TERRAIN_HEIGHT_MULTIPLIER == 1

TERRAIN_STRETCH == 10

NoiseScale == 2

NoiseMax == NoiseScale * TERRAIN_HEIGHT_MULTIPLIER

----------------------------------------------------------------------------
(* Vectors: 3-tuples <<x, y, z>>.                                          *)

Vector(x, y, z) == <<x, y, z>>

vec_add(a, b) == <<a[1] + b[1], a[2] + b[2], a[3] + b[3]>>

vec_sub(a, b) == <<a[1] - b[1], a[2] - b[2], a[3] - b[3]>>

(* Tuple order of the NamedTuple: lexicographic on (x, y, z).              *)
VecLess(a, b) ==
    \/ a[1] < b[1]
    \/ a[1] = b[1] /\ a[2] < b[2]
    \/ a[1] = b[1] /\ a[2] = b[2] /\ a[3] < b[3]

(* Python's % with a positive modulus: the result is in 0 .. k-1 also for  *)
(* a negative left operand (floor modulus), which is what TLA+'s % gives.  *)
PyMod(a, k) == a % k

VecMod(v, k) == <<PyMod(v[1], k), PyMod(v[2], k), PyMod(v[3], k)>>

(* Vector.align: v - (v mod k), component-wise.                            *)
Align(v, k) == vec_sub(v, VecMod(v, k))

----------------------------------------------------------------------------
(* Graph (src/crnstc/graph.py): nodes maps a node to its neighbour set,    *)
(* edges maps an edge key to its data, node_data maps a node to its data.  *)
(* A Python dict is a function with a finite domain.                       *)

NoData == "None"

EmptyGraph == [nodes |-> <<>>, node_data |-> <<>>, edges |-> <<>>]

(* d[k] = v: the entry for k is added or replaced (@@ keeps its left value).*)
DictSet(d, k, v) == (k :> v) @@ d

add_node(g, key, data) ==
    [g EXCEPT !.nodes = DictSet(g.nodes, key, {}),
              !.node_data = IF data # NoData
                            THEN DictSet(g.node_data, key, data)
                            ELSE g.node_data]

edge_key(a, b) == IF VecLess(a, b) THEN <<a, b>> ELSE <<b, a>>

add_edge_one_way(g, a, b, data) ==
    LET g1 == IF a \notin DOMAIN g.nodes THEN add_node(g, a, NoData) ELSE g
        g2 == IF b \notin DOMAIN g1.nodes THEN add_node(g1, b, NoData) ELSE g1
        n1 == [g2.nodes EXCEPT ![a] = @ \cup {b}]
    IN  [g2 EXCEPT !.nodes = n1,
                   !.edges = DictSet(g2.edges, edge_key(a, b), data)]

add_edge(g, a, b, data) ==
    LET g1 == IF a \notin DOMAIN g.nodes THEN add_node(g, a, NoData) ELSE g
        g2 == IF b \notin DOMAIN g1.nodes THEN add_node(g1, b, NoData) ELSE g1
        n1 == [g2.nodes EXCEPT ![a] = @ \cup {b}]
        n2 == [n1 EXCEPT ![b] = @ \cup {a}]
    IN  [g2 EXCEPT !.nodes = n2,
                   !.edges = DictSet(g2.edges, edge_key(a, b), data)]

(* del d[k]                                                                *)
DictDel(d, k) == [x \in (DOMAIN d) \ {k} |-> d[x]]

(* A call on a graph ends with the graph as the call left it and raised =  *)
(* TRUE when it ends with an exception.                                    *)
Outcome(g, raised) == [g |-> g, raised |-> raised]

(* graph.py 38-42: remove_edge, statement by statement.  nodes[a].remove(b) *)
(* raises KeyError when a is no node or b is not in the set; then          *)
(* nodes[b].remove(a) and del edges[key] likewise, each after the          *)
(* statements before it have changed the graph.                            *)
remove_edge(g, a, b) ==
    IF a \notin DOMAIN g.nodes \/ b \notin g.nodes[a]
    THEN Outcome(g, TRUE)
    ELSE LET n1 == [g.nodes EXCEPT ![a] = @ \ {b}]
         IN  IF b \notin DOMAIN n1 \/ a \notin n1[b]
             THEN Outcome([g EXCEPT !.nodes = n1], TRUE)
             ELSE LET n2 == [n1 EXCEPT ![b] = @ \ {a}]
                  IN  IF edge_key(a, b) \notin DOMAIN g.edges
                      THEN Outcome([g EXCEPT !.nodes = n2], TRUE)
                      ELSE Outcome([g EXCEPT !.nodes = n2,
                                             !.edges = DictDel(@, edge_key(a, b))],
                                   FALSE)

(* graph.py 12-16: remove_node; the set of its outcomes, one per neighbour *)
(* the iteration of the set can yield first.  nodes[key] raises KeyError   *)
(* for a key that is no node.  The three statements of the body are inside *)
(* the loop: with no neighbour none of them runs.  With a neighbour other, *)
(* remove_edge(key, other) takes other out of the very set the loop        *)
(* iterates over, the node and its data are deleted, and the next step of  *)
(* the iteration raises RuntimeError (Set changed size during iteration),  *)
(* whatever is left in the set.                                            *)
remove_node(g, key) ==
    IF key \notin DOMAIN g.nodes THEN {Outcome(g, TRUE)}
    ELSE IF g.nodes[key] = {} THEN {Outcome(g, FALSE)}
    ELSE UNION { { IF r.raised THEN r
                   ELSE Outcome([r.g EXCEPT !.nodes = DictDel(@, key),
                                            !.node_data = DictDel(@, key)], TRUE) :
                      r \in {remove_edge(g, key, other)} } :
                 other \in g.nodes[key] }

(* Chunk.make_cube_graph: the twelve add_edge calls, in source order.      *)
CubeEdgeCalls ==
    << <<Vector(0,0,0), Vector(1,0,0)>>, <<Vector(0,1,0), Vector(1,1,0)>>,
       <<Vector(0,0,1), Vector(1,0,1)>>, <<Vector(0,1,1), Vector(1,1,1)>>,
       <<Vector(0,0,0), Vector(0,1,0)>>, <<Vector(1,0,0), Vector(1,1,0)>>,
       <<Vector(0,0,1), Vector(0,1,1)>>, <<Vector(1,0,1), Vector(1,1,1)>>,
       <<Vector(0,0,0), Vector(0,0,1)>>, <<Vector(1,0,0), Vector(1,0,1)>>,
       <<Vector(0,1,0), Vector(0,1,1)>>, <<Vector(1,1,0), Vector(1,1,1)>> >>

RECURSIVE AddEdges(_, _, _)
AddEdges(g, calls, i) ==
    IF i > Len(calls) THEN g
    ELSE AddEdges(add_edge(g, calls[i][1], calls[i][2], NoData), calls, i + 1)

make_cube_graph == AddEdges(EmptyGraph, CubeEdgeCalls, 1)

(* numba_cube_nodes: node -> neighbours; numba_cube_edges: the edge keys.  *)
cube_nodes == make_cube_graph.nodes

cube_edges == DOMAIN make_cube_graph.edges

----------------------------------------------------------------------------
(* Exact quotients: <<n, d>> in lowest terms with d > 0.                   *)

Abs(a) == IF a < 0 THEN -a ELSE a

RECURSIVE Gcd(_, _)
Gcd(a, b) == IF b = 0 THEN a ELSE Gcd(b, a % b)

Frac(n, d) ==
    LET g == Gcd(Abs(n), Abs(d))
        s == IF d < 0 THEN -1 ELSE 1
    IN  <<(s * n) \div g, (s * d) \div g>>

(* The crossing point without the "+ corner0" of line 210.                 *)
EdgeVertexNoOffset(corner0, corner1, cnoise0, cnoise1) ==
    LET den == cnoise0 - cnoise1
        d   == vec_sub(corner1, corner0)
        c(i) == Frac(d[i] * cnoise0, den)
    IN  <<c(1), c(2), c(3)>>

(* engine.py 207-211: intersection = cnoise0 / (cnoise0 - cnoise1);        *)
(* vertex = (corner1 - corner0) * intersection + corner0.                  *)
EdgeVertex(corner0, corner1, cnoise0, cnoise1) ==
    LET den == cnoise0 - cnoise1
        d   == vec_sub(corner1, corner0)
        c(i) == Frac(d[i] * cnoise0 + corner0[i] * den, den)
    IN  <<c(1), c(2), c(3)>>

(* engine.py 201-212: the entries written to edge_values for one cell.     *)
(* cn maps each cube corner to the cell's sample at that corner.           *)
CellEdgeValues(cn) ==
    [e \in {k \in cube_edges : cn[k[1]] * cn[k[2]] < 0} |->
        EdgeVertex(e[1], e[2], cn[e[1]], cn[e[2]])]

(* engine.py 212: edge_values[edge] = vertex, for every crossing edge, on  *)
(* top of what edge_values holds when the cell is entered.                 *)
UpdateEdgeValues(ev, cn) ==
    LET new == CellEdgeValues(cn)
    IN  [e \in (DOMAIN ev) \cup (DOMAIN new) |->
            IF e \in DOMAIN new THEN new[e] ELSE ev[e]]

(* set.pop() and the iteration order of tuple(neighbors) are fixed by the  *)
(* hash layout, not by the program text: the walk takes the order as an    *)
(* input ord, a sequence listing the eight corners, and pops the member    *)
(* of the set that comes first in ord.                                     *)
PopOrders ==
    { << <<0,0,0>>, <<0,0,1>>, <<0,1,0>>, <<0,1,1>>,
         <<1,0,0>>, <<1,0,1>>, <<1,1,0>>, <<1,1,1>> >>,
      << <<1,1,1>>, <<1,1,0>>, <<1,0,1>>, <<1,0,0>>,
         <<0,1,1>>, <<0,1,0>>, <<0,0,1>>, <<0,0,0>> >>,
      << <<0,1,1>>, <<1,0,0>>, <<0,0,0>>, <<1,1,1>>,
         <<1,0,1>>, <<0,1,0>>, <<1,1,0>>, <<0,0,1>> >> }

Pick(S, ord) == ord[CHOOSE i \in 1..Len(ord) :
                      ord[i] \in S /\ \A j \in 1..(i - 1) : ord[j] \notin S]

RECURSIVE SetToSeq(_, _)
SetToSeq(S, ord) ==
    IF S = {} THEN <<>>
    ELSE <<Pick(S, ord)>> \o SetToSeq(S \ {Pick(S, ord)}, ord)

(* The walk without the push of non-negative neighbours.                   *)
VisitNodeNoPush(w, node, cn, ev, ord) ==
    LET nbrs   == cube_nodes[node]
        neg    == {n \in nbrs : cn[n] < 0}
        missed == {n \in neg : edge_key(node, n) \notin DOMAIN ev}
        found  == {<<ev[edge_key(node, n)], vec_sub(n, node)>> : n \in neg \ missed}
    IN  [w EXCEPT !.surface_vertices = @ \cup found,
                  !.lookups = @ \cup {edge_key(node, n) : n \in neg},
                  !.err = @ \/ missed # {}]

(* engine.py 228-237: the neighbour loop of one visited non-negative node. *)
(* w is the walk state: unvisited, visit_next, surface_vertices, lookups   *)
(* (the edges looked up in edge_values so far) and err (a lookup           *)
(* edge_values[edge] raised KeyError).                                     *)
VisitNode(w, node, cn, ev, ord) ==
    LET nbrs   == cube_nodes[node]
        neg    == {n \in nbrs : cn[n] < 0}
        missed == {n \in neg : edge_key(node, n) \notin DOMAIN ev}
        found  == {<<ev[edge_key(node, n)], vec_sub(n, node)>> : n \in neg \ missed}
        push   == {n \in nbrs \ neg : n \in w.unvisited}
    IN  [w EXCEPT !.surface_vertices = @ \cup found,
                  !.lookups = @ \cup {edge_key(node, n) : n \in neg},
                  !.visit_next = @ \o SetToSeq(push, ord),
                  !.unvisited = @ \ push,
                  !.err = @ \/ missed # {}]

(* engine.py 222-237: while visit_next: node = visit_next.pop() ...        *)
RECURSIVE WalkFrom(_, _, _, _)
WalkFrom(w, cn, ev, ord) ==
    IF w.visit_next = <<>> \/ w.err THEN w
    ELSE LET node == w.visit_next[Len(w.visit_next)]
             w1   == [w EXCEPT !.visit_next = SubSeq(@, 1, Len(@) - 1)]
         IN  IF cn[node] < 0 THEN WalkFrom(w1, cn, ev, ord)
             ELSE WalkFrom(VisitNode(w1, node, cn, ev, ord), cn, ev, ord)

(* The walks of one cell without the test "if surface_vertices:": every    *)
(* walk closes a polygon.                                                  *)
RECURSIVE WalkCellKeepEmpty(_, _, _, _, _, _)
WalkCellKeepEmpty(unvisited, cell_surfaces, lookups, cn, ev, ord) ==
    IF unvisited = {}
    THEN [surfaces |-> cell_surfaces, lookups |-> lookups, err |-> FALSE]
    ELSE LET seed == Pick(unvisited, ord)
             w    == WalkFrom([unvisited |-> unvisited \ {seed},
                               visit_next |-> <<seed>>,
                               surface_vertices |-> {},
                               lookups |-> lookups,
                               err |-> FALSE], cn, ev, ord)
         IN  IF w.err
             THEN [surfaces |-> cell_surfaces, lookups |-> w.lookups, err |-> TRUE]
             ELSE WalkCellKeepEmpty(w.unvisited, cell_surfaces \cup {w.surface_vertices},
                                    w.lookups, cn, ev, ord)

(* engine.py 214-303: while unvisited: seed a walk; a walk that recorded   *)
(* vertices closes one polygon (surface_vertices is then cleared).         *)
(* A polygon is kept as the set of its (vertex, normal) pairs.             *)
RECURSIVE WalkCell(_, _, _, _, _, _)
WalkCell(unvisited, cell_surfaces, lookups, cn, ev, ord) ==
    IF unvisited = {}
    THEN [surfaces |-> cell_surfaces, lookups |-> lookups, err |-> FALSE]
    ELSE LET seed == Pick(unvisited, ord)
             w    == WalkFrom([unvisited |-> unvisited \ {seed},
                               visit_next |-> <<seed>>,
                               surface_vertices |-> {},
                               lookups |-> lookups,
                               err |-> FALSE], cn, ev, ord)
         IN  IF w.err
             THEN [surfaces |-> cell_surfaces, lookups |-> w.lookups, err |-> TRUE]
             ELSE WalkCell(w.unvisited,
                           IF w.surface_vertices # {}
                           THEN cell_surfaces \cup {w.surface_vertices}
                           ELSE cell_surfaces,
                           w.lookups, cn, ev, ord)

HasZeroCornerNever(cn) == FALSE

(* engine.py 196: (cell_noise == 0).any()                                  *)
HasZeroCorner(cn) == \E c \in DOMAIN cn : cn[c] = 0

(* engine.py 192-308: the body of the loop for one cell.  ev is            *)
(* edge_values as the cell finds it.  skipped: the zero test took the      *)
(* continue; edge_values: the dict as the cell leaves it.                  *)
CellSurfaces(cn, ev, ord) ==
    IF HasZeroCorner(cn)
    THEN [skipped |-> TRUE, surfaces |-> {}, lookups |-> {}, err |-> FALSE,
          edge_values |-> ev]
    ELSE LET r == WalkCell(DOMAIN cube_nodes, {}, {}, cn,
                           UpdateEdgeValues(ev, cn), ord)
         IN  [skipped |-> FALSE, surfaces |-> r.surfaces, lookups |-> r.lookups,
              err |-> r.err, edge_values |-> <<>>]

----------------------------------------------------------------------------
(* Winding (engine.py 239-303): the vertices of one polygon are ordered by *)
(* their angle around the mean normal, measured from the first recorded    *)
(* vertex.  The float arithmetic is replaced by exact integer vectors:     *)
(* every vector is a positive multiple of the one the code computes,       *)
(* which leaves the signs of dot and cross products, and with them the     *)
(* order of the angles, unchanged.  A polygon is a set of (vertex, normal) *)
(* pairs; vertices are triples of quotients <<n, d>>.                      *)

Dot(a, b) == a[1] * b[1] + a[2] * b[2] + a[3] * b[3]

Cross(a, b) ==
    <<a[2] * b[3] - a[3] * b[2], a[3] * b[1] - a[1] * b[3], a[1] * b[2] - a[2] * b[1]>>

Scale(v, k) == <<v[1] * k, v[2] * k, v[3] * k>>

(* v divided by the gcd of its components: the same direction.             *)
Reduce(v) ==
    LET g == Gcd(Gcd(Abs(v[1]), Abs(v[2])), Abs(v[3]))
    IN  IF g = 0 THEN v ELSE <<v[1] \div g, v[2] \div g, v[3] \div g>>

Lcm(a, b) == (a * b) \div Gcd(a, b)

RECURSIVE SetLcm(_)
SetLcm(S) ==
    IF S = {} THEN 1
    ELSE CHOOSE m \in {Lcm(x, SetLcm(S \ {x})) : x \in {CHOOSE y \in S : TRUE}} : TRUE

(* The common denominator of the vertices of the polygon.                  *)
Denominator(poly) == SetLcm({vn[1][i][2] : vn \in poly, i \in 1..3})

(* The vertex times the common denominator d: an integer vector.           *)
Numerators(vertex, d) ==
    [i \in 1..3 |-> vertex[i][1] * (d \div vertex[i][2])]

(* The sum of F over the members of the set S of pairs.                    *)
RECURSIVE SumVectors(_, _, _)
SumVectors(S, part, d) ==
    IF S = {} THEN <<0, 0, 0>>
    ELSE CHOOSE m \in
            { vec_add(IF part = 1 THEN Numerators(x[1], d) ELSE x[2],
                      SumVectors(S \ {x}, part, d)) :
                  x \in {CHOOSE y \in S : TRUE} } : TRUE

(* engine.py 252-255: midpoint = mean of the vertices; vertices -= midpoint. *)
(* The result is the vertex relative to the midpoint, times len(poly) * d. *)
Centered(poly, vn, d) ==
    vec_sub(Scale(Numerators(vn[1], d), Cardinality(poly)), SumVectors(poly, 1, d))

(* engine.py 257-260: mnormal, the mean of the normals (times len(poly),   *)
(* not normalized).  <<0, 0, 0>> makes np_magnitude 0 and the division     *)
(* mnormal /= 0.0 gives nan.                                               *)
MeanNormal(poly) == SumVectors(poly, 2, 1)

(* engine.py 262-270: cross(mnormal, cross(vertex, mnormal)), the vertex   *)
(* projected into the plane of the midpoint and mnormal (not normalized, a *)
(* positive multiple of vproject).  <<0, 0, 0>> makes the normalizing      *)
(* division 0.0 / 0.0.                                                     *)
Projected(poly, vn, d) ==
    LET n == MeanNormal(poly)
    IN  Reduce(Cross(n, Cross(Centered(poly, vn, d), n)))

(* engine.py 277-291: where the angle theta from head to vn lies:          *)
(* 0 for [0, pi) (tndot >= 0, arccos), 1 for pi, 2 for (pi, 2 pi)          *)
(* (tndot < 0, the reflex angle 2 pi - arccos).  ph and pv are the         *)
(* projected vectors, n the mean normal.                                   *)
AngleClass(ph, pv, n) ==
    LET tndot == Dot(Reduce(Cross(ph, pv)), n)
    IN  IF tndot < 0 THEN 2
        ELSE IF tndot > 0 \/ Dot(ph, pv) > 0 THEN 0 ELSE 1

(* theta of a is less than theta of b, both measured from head.            *)
ThetaLess(ph, pa, pb, n) ==
    \/ AngleClass(ph, pa, n) < AngleClass(ph, pb, n)
    \/ /\ AngleClass(ph, pa, n) = AngleClass(ph, pb, n)
       /\ Dot(Reduce(Cross(pa, pb)), n) > 0

ThetaEqual(ph, pa, pb, n) ==
    /\ AngleClass(ph, pa, n) = AngleClass(ph, pb, n)
    /\ Dot(Reduce(Cross(pa, pb)), n) = 0

(* Tuple order of two quotients, of two vertices, of two normals.          *)
QuotLess(a, b) == a[1] * b[2] < b[1] * a[2]

VertexLess(a, b) ==
    \/ QuotLess(a[1], b[1])
    \/ a[1] = b[1] /\ QuotLess(a[2], b[2])
    \/ a[1] = b[1] /\ a[2] = b[2] /\ QuotLess(a[3], b[3])

PairLess(a, b) == VertexLess(a[1], b[1]) \/ (a[1] = b[1] /\ VecLess(a[2], b[2]))

(* engine.py 262-270 for every vertex: vproject, as a function of the      *)
(* (vertex, normal) pair.                                                  *)
Projections(poly) ==
    CHOOSE f \in { [vn \in poly |-> Projected(poly, vn, d)] : d \in {Denominator(poly)} } : TRUE

(* Some quotient of the winding step is x / 0.0: its angles are nan.       *)
WindingUndefined(n, proj) ==
    \/ n = <<0, 0, 0>>
    \/ \E vn \in DOMAIN proj : proj[vn] = <<0, 0, 0>>

(* engine.py 298: the order of sorted(zip(thetas, surface_vertices)).      *)
SortedBefore(n, proj, head, a, b) ==
    \/ ThetaLess(proj[head], proj[a], proj[b], n)
    \/ ThetaEqual(proj[head], proj[a], proj[b], n) /\ PairLess(a, b)

(* All sequences that list every member of S once.                         *)
RECURSIVE Orderings(_)
Orderings(S) ==
    IF S = {} THEN {<<>>}
    ELSE UNION { { <<x>> \o q : q \in Orderings(S \ {x}) } : x \in S }

(* The sorted list, mutated: no angle is prepended for the first vector,   *)
(* so that zip pairs one angle less than there are vertices and the last   *)
(* vertex is left out.                                                     *)
SortedFromTail(n, proj, head) ==
    [i \in 1..(Cardinality(DOMAIN proj) - 1) |->
        CHOOSE a \in DOMAIN proj :
            Cardinality({b \in DOMAIN proj : SortedBefore(n, proj, head, b, a)}) = i - 1]

(* engine.py 272-300: the list sorted by angle from head.                  *)
SortedFrom(n, proj, head) ==
    [i \in 1..Cardinality(DOMAIN proj) |->
        CHOOSE a \in DOMAIN proj :
            Cardinality({b \in DOMAIN proj : SortedBefore(n, proj, head, b, a)}) = i - 1]

(* engine.py 252-300: the values ordered_vertices can take for the polygon *)
(* for each vertex head that the walk can record first (unvisited.pop()    *)
(* and the neighbour tuples follow set order, so that any vertex can come  *)
(* first).  With defined angles it is the one sorted list; with nan angles *)
(* every comparison of the sort is false and the list it leaves is fixed   *)
(* by the sort routine and the recorded order, not by the angles: any      *)
(* ordering.                                                               *)
Wind(poly) ==
    CHOOSE w \in UNION {
        { IF WindingUndefined(n, proj)
          THEN [head \in poly |-> all]
          ELSE [head \in poly |-> {SortedFrom(n, proj, head)}] :
              all \in {IF WindingUndefined(n, proj) THEN Orderings(poly) ELSE {}} } :
            n \in {MeanNormal(poly)}, proj \in {Projections(poly)} } : TRUE

(* The loop body for one cell with the winding of its polygons:            *)
(* ordered[poly][head] holds the lists the cell can store for poly when    *)
(* head is the first vertex the walk recorded.                             *)
CellExtraction(cn, ev, ord) ==
    CHOOSE out \in
        { [skipped |-> r.skipped, surfaces |-> r.surfaces, lookups |-> r.lookups,
           err |-> r.err, edge_values |-> r.edge_values,
           ordered |-> [poly \in r.surfaces |-> Wind(poly)]] :
              r \in {CellSurfaces(cn, ev, ord)} } : TRUE

----------------------------------------------------------------------------
(* Chunk construction (Chunk.__init__).                                    *)
(* A noise field f stands for opensimplex under seed 0 after the stretch:  *)
(* a function of the world lattice point alone, with values in             *)
(* [-NoiseMax, NoiseMax].  It is kept as a base value and a finite map of  *)
(* points whose value differs from the base.                               *)

NoiseAt(f, p) == IF p \in DOMAIN f.bumps THEN f.bumps[p] ELSE f.base

(* engine.py 94-96: noise * TERRAIN_HEIGHT_MULTIPLIER - z                  *)
Sample(f, p) == NoiseAt(f, p) - NoiseScale * p[3]

Lattice == {<<i, j, k>> : i \in 0..CHUNK_SIZE, j \in 0..CHUNK_SIZE, k \in 0..CHUNK_SIZE}

LocalCells ==
    {<<i, j, k>> : i \in 0..(CHUNK_SIZE - 1), j \in 0..(CHUNK_SIZE - 1),
                   k \in 0..(CHUNK_SIZE - 1)}

(* numpy.linspace(a / t, b / t, num)[i] with a step of                     *)
(* (b / t - a / t) / num: the end point left out of the division.          *)
LinspaceNoEndpoint(a, b, t, num, i) == Frac(a * num + i * (b - a), t * num)

(* engine.py 83-91: numpy.linspace(a / t, b / t, num)[i], i from 0: the    *)
(* start plus i steps of (b / t - a / t) / (num - 1), as an exact quotient. *)
Linspace(a, b, t, num, i) ==
    Frac(a * (num - 1) + i * (b - a), t * (num - 1))

(* engine.py 78-91: x_corners[l.x], y_corners[l.y], z_corners[l.z].        *)
Corners(position, l) ==
    [a \in 1..3 |-> Linspace(position[a], position[a] + CHUNK_SIZE,
                             TERRAIN_STRETCH, CHUNK_SIZE + 1, l[a])]

(* The noise coordinates of the world lattice point p: p / TERRAIN_STRETCH. *)
Stretch(p) == [a \in 1..3 |-> Frac(p[a], TERRAIN_STRETCH)]

(* engine.py 94: opensimplex.noise3array at one triple of coordinates      *)
(* (the call passes z, y, x and returns an array indexed x, y, z): the     *)
(* value of the field at the point that has these coordinates.             *)
NoiseAtCoords(f, coords) ==
    LET hit == {p \in DOMAIN f.bumps : Stretch(p) = coords}
    IN  IF hit # {} THEN f.bumps[CHOOSE p \in hit : TRUE] ELSE f.base

(* engine.py 78-96: the (CHUNK_SIZE+1)^3 array of samples of one chunk:    *)
(* the noise at the corner coordinates, scaled, minus arange(z0, z1 + 1)   *)
(* along the last axis.                                                    *)
ChunkNoise(f, position) ==
    [l \in Lattice |->
        NoiseAtCoords(f, Corners(position, l)) - NoiseScale * (position[3] + l[3])]

(* engine.py 194: cell_noise = noise[x0:x0+2, y0:y0+2, z0:z0+2]            *)
CellNoise(noise, local) == [c \in DOMAIN cube_nodes |-> noise[vec_add(local, c)]]

(* The count of the edges with a positive product.                         *)
IntersectionsSameSign(noise, cell) ==
    Cardinality({e \in cube_edges :
        noise[vec_add(cell, e[1])] * noise[vec_add(cell, e[2])] > 0})

(* engine.py 98-110: per cell, the number of edges with a negative product *)
Intersections(noise, cell) ==
    Cardinality({e \in cube_edges :
        noise[vec_add(cell, e[1])] * noise[vec_add(cell, e[2])] < 0})

(* numpy.argwhere lists the indices in row-major (lexicographic) order.    *)
RECURSIVE SortCells(_)
SortCells(S) ==
    IF S = {} THEN <<>>
    ELSE LET m == CHOOSE c \in S : \A d \in S \ {c} : VecLess(c, d)
         IN  <<m>> \o SortCells(S \ {m})

(* engine.py 112: terrain_cells = np.argwhere(intersections > 0)           *)
TerrainCells(noise) == SortCells({c \in LocalCells : Intersections(noise, c) > 0})

(* engine.py 188-310: the list of cell_surfaces, one entry per cell that   *)
(* is not skipped and has at least one polygon, in the order of cells.     *)
RECURSIVE MakeSurfacesFrom(_, _, _, _, _, _)
MakeSurfacesFrom(noise, cells, i, acc, ev, ord) ==
    IF i > Len(cells) THEN [list |-> acc, err |-> FALSE]
    ELSE CHOOSE out \in
            { IF r.err THEN [list |-> acc, err |-> TRUE]
              ELSE MakeSurfacesFrom(noise, cells, i + 1,
                       IF r.surfaces # {} THEN Append(acc, r.surfaces) ELSE acc,
                       r.edge_values, ord) :
                  r \in {CellSurfaces(CellNoise(noise, cells[i]), ev, ord)} } : TRUE

numba_make_terrain_surfaces(noise, cells, ord) ==
    MakeSurfacesFrom(noise, cells, 1, <<>>, <<>>, ord)

Min(a, b) == IF a < b THEN a ELSE b

(* engine.py 122-124: the dict built from zip(terrain_cells,               *)
(* terrain_surfaces): the i-th cell is paired with the i-th list entry,    *)
(* and zip stops at the shorter of the two.                                *)
ZipDict(cells, list) ==
    LET n == Min(Len(cells), Len(list))
    IN  [c \in {cells[i] : i \in 1..n} |->
            list[CHOOSE i \in 1..n : cells[i] = c]]

(* The test of the early exit, mutated: the two limits exchanged.          *)
IsEmptyByHeightSwapped(position) ==
    LET z0 == position[3]
        z1 == z0 + CHUNK_SIZE
    IN  z0 > -TERRAIN_HEIGHT_MULTIPLIER \/ z1 < TERRAIN_HEIGHT_MULTIPLIER

(* engine.py 66-74: the chunk lies wholly above or below the terrain band. *)
IsEmptyByHeight(position) ==
    LET z0 == position[3]
        z1 == z0 + CHUNK_SIZE
    IN  z0 > TERRAIN_HEIGHT_MULTIPLIER \/ z1 < -TERRAIN_HEIGHT_MULTIPLIER

(* engine.py 76-124: the construction past the early exit: the samples,   *)
(* the cells with a crossing edge, their surfaces and the dict.  raised =  *)
(* TRUE when it ends with an exception (then no object is returned).       *)
(* noise is the local array of samples the constructor computed; it is no  *)
(* attribute of the Chunk.                                                 *)
(* The one-member sets bind noise, cells and r to their values, as the     *)
(* local variables of the constructor hold them.                           *)
SampledChunk(f, position, ord) ==
    CHOOSE chunk \in UNION {
            { [position |-> position,
               terrain_surfaces |-> IF r.err THEN <<>> ELSE ZipDict(cells, r.list),
               raised |-> r.err,
               noise |-> noise] :
                  r \in {numba_make_terrain_surfaces(noise, cells, ord)} } :
                noise \in {ChunkNoise(f, position)},
                cells \in {TerrainCells(ChunkNoise(f, position))} } : TRUE

(* Chunk.__init__: the constructed object, with the early exit of          *)
(* engine.py 71-74 (noise is <<>> there: nothing was sampled).             *)
NewChunk(f, position, ord) ==
    IF IsEmptyByHeight(position)
    THEN [position |-> position, terrain_surfaces |-> <<>>, raised |-> FALSE,
          noise |-> <<>>]
    ELSE SampledChunk(f, position, ord)

----------------------------------------------------------------------------
(* The chunk store (GameEngine.chunks, GameEngine.get_chunk).              *)

None == "None"

NotInStoreNever(store, aligned) == TRUE

(* engine.py 49: if aligned not in self.chunks                             *)
NotInStore(store, aligned) == aligned \notin DOMAIN store

InsertChunkReset(store, aligned, chunk) == [x \in {aligned} |-> chunk]

(* engine.py 51: self.chunks[aligned] = chunk                              *)
InsertChunk(store, aligned, chunk) == DictSet(store, aligned, chunk)

(* Number of entries counted under key k in a history dict.                *)
Count(d, k) == IF k \in DOMAIN d THEN d[k] ELSE 0

(* get_chunk with Chunk(position) in place of Chunk(aligned).              *)
get_chunk_unaligned(store, position, nbuilt, f, ord) ==
    LET aligned == Align(position, CHUNK_SIZE)
    IN  IF NotInStore(store, aligned)
        THEN CHOOSE out \in
                { LET chunk == [position |-> c.position,
                                terrain_surfaces |-> c.terrain_surfaces,
                                id |-> <<aligned, Count(nbuilt, aligned) + 1>>]
                  IN  IF c.raised
                      THEN [chunks |-> store, chunk |-> None,
                            constructed |-> TRUE, raised |-> TRUE]
                      ELSE [chunks |-> InsertChunk(store, aligned, chunk),
                            chunk |-> chunk, constructed |-> TRUE, raised |-> FALSE] :
                      c \in {NewChunk(f, position, ord)} } : TRUE
        ELSE [chunks |-> store, chunk |-> store[aligned],
              constructed |-> FALSE, raised |-> FALSE]

(* get_chunk storing the Chunk object before its surfaces are assigned.    *)
get_chunk_partial(store, position, nbuilt, f, ord) ==
    LET aligned == Align(position, CHUNK_SIZE)
    IN  IF NotInStore(store, aligned)
        THEN CHOOSE out \in
                { LET chunk == [position |-> c.position,
                                terrain_surfaces |-> c.terrain_surfaces,
                                id |-> <<aligned, Count(nbuilt, aligned) + 1>>]
                      partial == [chunk EXCEPT !.terrain_surfaces = <<>>]
                  IN  [chunks |-> InsertChunk(store, aligned, partial),
                       chunk |-> IF c.raised THEN None ELSE chunk,
                       constructed |-> TRUE, raised |-> c.raised] :
                      c \in {NewChunk(f, aligned, ord)} } : TRUE
        ELSE [chunks |-> store, chunk |-> store[aligned],
              constructed |-> FALSE, raised |-> FALSE]

(* GameEngine.get_chunk.  nbuilt maps an aligned position to the number of *)
(* Chunk objects constructed for it so far; a Chunk object is identified   *)
(* by id = <<its position, its rank among them>>, so that two objects with *)
(* equal content differ.  The result holds the store after the call, the   *)
(* returned chunk (None when the constructor raised and the exception left *)
(* get_chunk), and whether a Chunk was constructed.                        *)
get_chunk(store, position, nbuilt, f, ord) ==
    LET aligned == Align(position, CHUNK_SIZE)
    IN  IF NotInStore(store, aligned)
        THEN CHOOSE out \in
                { LET chunk == [position |-> c.position,
                                terrain_surfaces |-> c.terrain_surfaces,
                                id |-> <<aligned, Count(nbuilt, aligned) + 1>>]
                  IN  IF c.raised
                      THEN [chunks |-> store, chunk |-> None,
                            constructed |-> TRUE, raised |-> TRUE]
                      ELSE [chunks |-> InsertChunk(store, aligned, chunk),
                            chunk |-> chunk, constructed |-> TRUE, raised |-> FALSE] :
                      c \in {NewChunk(f, aligned, ord)} } : TRUE
        ELSE [chunks |-> store, chunk |-> store[aligned],
              constructed |-> FALSE, raised |-> FALSE]

----------------------------------------------------------------------------
(* Noise fields the specifications draw from: a base value from bases and  *)
(* at most n points of points whose value, from vals, differs from it.     *)

NoiseVals == (-NoiseMax)..NoiseMax

Fields(bases, points, vals, n) ==
    {[base |-> b, bumps |-> m] :
        b \in bases \cap NoiseVals,
        m \in UNION {[P -> vals \cap NoiseVals] :
                        P \in {Q \in SUBSET points : Cardinality(Q) <= n}}}

----------------------------------------------------------------------------
VARIABLES
    noise_field,    \* the noise function (opensimplex with its seed)
    pop_order,      \* the order set.pop() yields the cube corners in
    chunks,         \* GameEngine.chunks: aligned position -> Chunk
    built,          \* history: aligned position -> number of constructions
    returned,       \* history: aligned position -> the calls that returned
    last,           \* <<>> or <<r>>, r the last get_chunk call and its result
    cell_noise,     \* the 2x2x2 samples of one cell (corner -> sample)
    cell_out,       \* <<>> or <<r>>, r the outcome of the loop body for the cell
    chunk_pos,      \* the position argument of one Chunk construction
    chunk_out,      \* <<>> or <<c>>, c the constructed Chunk
    probe,          \* GameEngine.__init__: pc, the locals x, y, z, do, and preloaded
    chunk_class,    \* the attributes of the class Chunk (cube_graph and its copies)
    ctor,           \* Chunk.__init__ calls: the running one and those that returned
    callers,        \* concurrent callers of get_chunk: caller -> its position in the call
    walk,           \* the corner walk of one cell, statement by statement
    graph           \* a Graph object, with the last call made on it

vars == <<noise_field, pop_order, chunks, built, returned, last,
          cell_noise, cell_out, chunk_pos, chunk_out, probe, chunk_class, ctor,
          callers, walk, graph, graph>>

(* Values of the variables a specification does not use.                   *)
NoField == [base |-> 0, bumps |-> <<>>]

StoreUnused == chunks = <<>> /\ built = <<>> /\ returned = <<>> /\ last = <<>>

CellUnused == cell_noise = <<>> /\ cell_out = <<>>

ChunkUnused == chunk_pos = <<>> /\ chunk_out = <<>>

ProbeUnused == probe = <<>>

ClassUnused == chunk_class = <<>> /\ ctor = <<>>

CallersUnused == callers = <<>>

WalkUnused == walk = <<>>

GraphUnused == graph = <<>>

(* Positions callers ask for: both signs on every axis, several positions  *)
(* per chunk, chunks above and below the terrain band.                     *)
CallPositions ==
    { <<0, 0, 0>>, <<1, 1, 1>>, <<-1, -2, -1>>, <<-2, -1, -2>>,
      <<0, 1, 2>>, <<1, -1, -5>> }

StoreFields == Fields({-1, 1}, {<<0, 0, 0>>, <<1, 1, 0>>}, {0, 1}, 1)

(* State after "self.chunks = dict()" (engine.py 16-17).                   *)
Init ==
    /\ noise_field \in StoreFields
    /\ pop_order \in PopOrders
    /\ chunks = <<>>
    /\ built = <<>>
    /\ returned = <<>>
    /\ last = <<>>
    /\ CellUnused /\ ChunkUnused /\ ProbeUnused /\ ClassUnused
    /\ CallersUnused /\ WalkUnused /\ GraphUnused

(* One call get_chunk(p), from its entry to its return or its exception.   *)
GetChunk(p) ==
    \E r \in {get_chunk(chunks, p, built, noise_field, pop_order)} :
        LET k == Align(p, CHUNK_SIZE)
        IN  /\ chunks' = r.chunks
            /\ built' = IF r.constructed
                        THEN DictSet(built, k, Count(built, k) + 1)
                        ELSE built
            /\ returned' = IF r.raised THEN returned
                           ELSE DictSet(returned, k,
                                   (IF k \in DOMAIN returned THEN returned[k] ELSE {})
                                   \cup {[position |-> p, chunk |-> r.chunk]})
            /\ last' = << [position |-> p, chunk |-> r.chunk, raised |-> r.raised,
                           constructed |-> r.constructed] >>
            /\ UNCHANGED <<chunk_class, ctor, callers, walk, graph, noise_field, pop_order, cell_noise, cell_out,
                           chunk_pos, chunk_out, probe>>

Next == \E p \in CallPositions : GetChunk(p)

Spec == Init /\ [][Next]_vars

----------------------------------------------------------------------------
(* Properties of the chunk store.                                          *)

Called == last # <<>>

LastCall == last[1]

Divisible(v, k) == \A i \in 1..3 : v[i] % k = 0

InCell(v, k) == \A i \in 1..3 : v[i] >= 0 /\ v[i] < k

(* C1: for every position p, negative components included, the chunk that  *)
(* get_chunk(p) returns has a position whose components are all divisible  *)
(* by CHUNK_SIZE, and p minus that position has every component in         *)
(* [0, CHUNK_SIZE).                                                        *)
C1_ChunkAlignment ==
    (Called /\ ~LastCall.raised) =>
        /\ Divisible(LastCall.chunk.position, CHUNK_SIZE)
        /\ InCell(vec_sub(LastCall.position, LastCall.chunk.position), CHUNK_SIZE)

C1_Witness ==
    /\ Called /\ ~LastCall.raised
    /\ LastCall.position = <<-1, -2, -1>>
    /\ LastCall.chunk.position = <<-2, -2, -2>>

(* C2: calls whose positions align to the same key return the same Chunk   *)
(* object with the same surfaces, and a chunk is constructed at most once  *)
(* per aligned key.                                                        *)
C2_SameChunkPerKey ==
    /\ \A k \in DOMAIN returned : \A a, b \in returned[k] :
          /\ a.chunk.id = b.chunk.id
          /\ a.chunk.terrain_surfaces = b.chunk.terrain_surfaces
    /\ \A k \in DOMAIN built : built[k] <= 1

C2_Witness ==
    \E k \in DOMAIN returned : \E a, b \in returned[k] :
        /\ a.position # b.position
        /\ a.chunk.terrain_surfaces # <<>>
        /\ Called /\ ~LastCall.constructed

(* C3: the store is append-only: a call get_chunk(p) removes no key,       *)
(* replaces no stored chunk, changes no stored position or surfaces, and   *)
(* adds at most the one key align(p).                                      *)
C3_AppendOnly ==
    [][ /\ \A k \in DOMAIN chunks : k \in DOMAIN chunks' /\ chunks'[k] = chunks[k]
        /\ (DOMAIN chunks') \ (DOMAIN chunks)
              \subseteq {Align(last'[1].position, CHUNK_SIZE)} ]_vars

C3_Witness ==
    /\ Cardinality(DOMAIN chunks) >= 3
    /\ Called /\ LastCall.constructed
    /\ \E k \in DOMAIN chunks : chunks[k].terrain_surfaces # <<>>

----------------------------------------------------------------------------
(* Extraction of one cell: the loop body of numba_make_terrain_surfaces    *)
(* applied to every 2x2x2 block of samples over CellVals.                  *)

CellVals == {-2, -1, 0, 1}

CellInit ==
    /\ cell_noise \in [DOMAIN cube_nodes -> CellVals]
    /\ pop_order \in PopOrders
    /\ cell_out = <<>>
    /\ noise_field = NoField
    /\ StoreUnused /\ ChunkUnused /\ ProbeUnused /\ ClassUnused
    /\ CallersUnused /\ WalkUnused /\ GraphUnused

ExtractCell ==
    /\ cell_out = <<>>
    /\ cell_out' = << CellSurfaces(cell_noise, <<>>, pop_order) >>
    /\ UNCHANGED <<chunk_class, ctor, callers, walk, graph, noise_field, pop_order, chunks, built, returned, last,
                   cell_noise, chunk_pos, chunk_out, probe>>

CellNext == ExtractCell

CellSpec == CellInit /\ [][CellNext]_vars

Extracted == cell_out # <<>>

CellOut == cell_out[1]

(* C5: every polygon extracted from a cell has at least 3 vertices, for    *)
(* every sign configuration of the eight corners that has no zero sample.  *)
C5_PolygonsHaveThreeVertices ==
    (Extracted /\ ~HasZeroCorner(cell_noise)) =>
        \A poly \in CellOut.surfaces : Cardinality(poly) >= 3

C5_Witness ==
    /\ Extracted /\ ~HasZeroCorner(cell_noise)
    /\ Cardinality(CellOut.surfaces) = 2
    /\ \E poly \in CellOut.surfaces : Cardinality(poly) = 3
    /\ \E poly \in CellOut.surfaces : Cardinality(poly) > 3

----------------------------------------------------------------------------
(* Construction of one chunk: Chunk(position) for two positions in the     *)
(* terrain band and one above it, over fields that differ from a flat      *)
(* field at up to MaxBumps points of the plane z = 0.                      *)

MaxBumps == 2

BumpPoints == {<<x, y, 0>> : x \in 0..CHUNK_SIZE, y \in 0..CHUNK_SIZE}

ChunkFields == Fields({-1, 1}, BumpPoints, {-1, 0, 1}, MaxBumps)

ChunkPositions == {<<0, 0, 0>>, <<0, 0, -CHUNK_SIZE>>, <<0, 0, 2 * CHUNK_SIZE>>}

ChunkInit ==
    /\ noise_field \in ChunkFields
    /\ pop_order \in PopOrders
    /\ chunk_pos \in ChunkPositions
    /\ chunk_out = <<>>
    /\ StoreUnused /\ CellUnused /\ ProbeUnused /\ ClassUnused
    /\ CallersUnused /\ WalkUnused /\ GraphUnused

Construct ==
    /\ chunk_out = <<>>
    /\ chunk_out' = << NewChunk(noise_field, chunk_pos, pop_order) >>
    /\ UNCHANGED <<chunk_class, ctor, callers, walk, graph, noise_field, pop_order, chunks, built, returned, last,
                   cell_noise, cell_out, chunk_pos, probe>>

ChunkNext == Construct

ChunkSpec == ChunkInit /\ [][ChunkNext]_vars

Constructed == chunk_out # <<>>

ChunkOut == chunk_out[1]

(* Constructions at heights around the two limits of the early exit, in    *)
(* fields that take the extreme values of the noise: positions with z0     *)
(* above TERRAIN_HEIGHT_MULTIPLIER, with z1 below its negation, and        *)
(* between the two, aligned to CHUNK_SIZE or not.                          *)
HeightBumpPoints ==
    {<<0, 0, CHUNK_SIZE>>, <<1, 1, CHUNK_SIZE + 1>>,
     <<0, 0, -CHUNK_SIZE>>, <<1, 1, -(CHUNK_SIZE + 1)>>, <<1, 1, 1>>}

HeightFields == Fields(NoiseVals \ {0}, HeightBumpPoints, {-NoiseMax, NoiseMax}, 1)

HeightPositions ==
    {<<0, 0, z>> : z \in (-(2 * CHUNK_SIZE + 1))..(CHUNK_SIZE + 1)} \cup {<<1, 1, CHUNK_SIZE>>}

HeightInit ==
    /\ noise_field \in HeightFields
    /\ pop_order \in PopOrders
    /\ chunk_pos \in HeightPositions
    /\ chunk_out = <<>>
    /\ StoreUnused /\ CellUnused /\ ProbeUnused /\ ClassUnused
    /\ CallersUnused /\ WalkUnused /\ GraphUnused

HeightSpec == HeightInit /\ [][ChunkNext]_vars

(* C26: a construction that takes the early exit returns the empty map     *)
(* without sampling, and the construction past the early exit, with the    *)
(* samples of the same field at the same position, returns the empty map   *)
(* as well and raises nothing.                                             *)
C26_EarlyExitEqualsFullSampling ==
    (Constructed /\ IsEmptyByHeight(chunk_pos)) =>
        /\ ChunkOut.terrain_surfaces = <<>>
        /\ ChunkOut.noise = <<>>
        /\ ~ChunkOut.raised
        /\ \E full \in {SampledChunk(noise_field, chunk_pos, pop_order)} :
              /\ full.terrain_surfaces = ChunkOut.terrain_surfaces
              /\ full.raised = ChunkOut.raised

(* An early exit at the lowest position above the band, in a field that    *)
(* has the largest noise value at a lattice point of the chunk.            *)
C26_Witness ==
    /\ Constructed
    /\ IsEmptyByHeight(chunk_pos)
    /\ ~IsEmptyByHeight([chunk_pos EXCEPT ![3] = @ - 1])
    /\ chunk_pos[3] > 0
    /\ \E l \in Lattice : NoiseAtCoords(noise_field, Corners(chunk_pos, l)) = NoiseMax
    /\ ChunkOut.terrain_surfaces = <<>>

(* The samples of the constructed chunk, and of one of its cells.          *)
OutNoise == ChunkNoise(noise_field, chunk_pos)

OutCell(cell) == CellNoise(OutNoise, cell)

(* An edge of the cell has endpoint samples of opposite sign.              *)
HasCrossing(cn) == \E e \in cube_edges : cn[e[1]] * cn[e[2]] < 0

(* C4: a local cell is a key of the chunk's surfaces map if and only if    *)
(* at least one of its 12 edges has endpoint samples with a strictly       *)
(* negative product.                                                       *)
C4_KeyIffCrossing ==
    Constructed =>
        \A cell \in LocalCells :
            (cell \in DOMAIN ChunkOut.terrain_surfaces) <=> HasCrossing(OutCell(cell))

(* C6: a cell with a corner sample equal to zero is skipped: it is no key  *)
(* of the surfaces map and no polygon is stored for it.                    *)
C6_ZeroCellSkipped ==
    Constructed =>
        \A cell \in LocalCells :
            HasZeroCorner(OutCell(cell)) => cell \notin DOMAIN ChunkOut.terrain_surfaces

(* C7: in a chunk that contains a cell with a zero sample, every other     *)
(* active cell with no zero corner is a key of surfaces and is mapped to   *)
(* the polygons extracted from its own eight corner samples.               *)
C7_OtherCellsKeepOwnPolygons ==
    (Constructed /\ \E z \in LocalCells : HasZeroCorner(OutCell(z))) =>
        \A cell \in LocalCells :
            (HasCrossing(OutCell(cell)) /\ ~HasZeroCorner(OutCell(cell))) =>
                /\ cell \in DOMAIN ChunkOut.terrain_surfaces
                /\ ChunkOut.terrain_surfaces[cell]
                      = CellSurfaces(OutCell(cell), <<>>, pop_order).surfaces

----------------------------------------------------------------------------
(* The spawn probe and the preload of GameEngine.__init__ (lines 21-40).   *)

SetMax(S) == CHOOSE m \in S : \A n \in S : n <= m

(* The probe body with z = chunk.position.z + i in place of + i + 1.       *)
ProbeIterationNoStep(x, y, z, chunk) ==
    IF chunk.terrain_surfaces = <<>>
    THEN [z |-> chunk.position[3] - 1, do |-> TRUE]
    ELSE LET hits == {i \in 0..PyMod(z, CHUNK_SIZE) :
                        VecMod(Vector(x, y, i), CHUNK_SIZE)
                            \in DOMAIN chunk.terrain_surfaces}
         IN  IF hits # {}
             THEN [z |-> chunk.position[3] + SetMax(hits), do |-> FALSE]
             ELSE [z |-> z, do |-> TRUE]

(* engine.py 27-35: the body of the while loop after get_chunk returned    *)
(* chunk for Vector(x, y, z): the new values of z and do.                  *)
ProbeIteration(x, y, z, chunk) ==
    IF chunk.terrain_surfaces = <<>>
    THEN [z |-> chunk.position[3] - 1, do |-> TRUE]
    ELSE LET hits == {i \in 0..PyMod(z, CHUNK_SIZE) :
                        VecMod(Vector(x, y, i), CHUNK_SIZE)
                            \in DOMAIN chunk.terrain_surfaces}
         IN  IF hits # {}
             THEN [z |-> chunk.position[3] + SetMax(hits) + 1, do |-> FALSE]
             ELSE [z |-> z, do |-> TRUE]

(* engine.py 39: itertools.product(range(-32, 33, 16), repeat=3): the     *)
(* offsets -2, -1, 0, 1, 2 chunks on every axis, the last axis fastest.    *)
PreloadOffsets ==
    LET ax(k) == (k - 2) * CHUNK_SIZE
    IN  [n \in 1..125 |->
            Vector(ax((n - 1) \div 25), ax(((n - 1) \div 5) % 5), ax((n - 1) % 5))]

(* engine.py 40: the i-th call get_chunk(offset + player_position): the   *)
(* store and the construction counts after it, and whether it raised.      *)
PreloadCall(store, nbuilt, i, origin, f, ord) ==
    LET p == vec_add(PreloadOffsets[i], origin)
        k == Align(p, CHUNK_SIZE)
    IN  CHOOSE out \in
            { [chunks |-> r.chunks,
               built |-> IF r.constructed
                         THEN DictSet(nbuilt, k, Count(nbuilt, k) + 1)
                         ELSE nbuilt,
               raised |-> r.raised] :
                  r \in {get_chunk(store, p, nbuilt, f, ord)} } : TRUE

(* The probe gives up below this depth: a field without any surface in     *)
(* the column makes the loop descend without end.                          *)
MaxProbeDepth == 8

ProbeFields == Fields({-1, 1}, BumpPoints, {-1, 0, 1}, 1)

(* State at engine.py 21-23, before the first iteration.                   *)
ProbeInit ==
    /\ noise_field \in ProbeFields
    /\ pop_order \in PopOrders
    /\ chunks = <<>>
    /\ built = <<>>
    /\ returned = <<>>
    /\ last = <<>>
    /\ probe = [pc |-> "loop", x |-> 0, y |-> 0, z |-> TERRAIN_HEIGHT_MULTIPLIER,
                do |-> TRUE, player_position |-> <<>>, preloaded |-> 0]
    /\ CellUnused /\ ChunkUnused /\ ClassUnused
    /\ CallersUnused /\ WalkUnused /\ GraphUnused

(* One iteration of "while do" (engine.py 24-35); leaving the loop sets    *)
(* player_position (line 37).                                              *)
ProbeStep ==
    /\ probe # <<>> /\ probe.pc = "loop"
    /\ probe.z >= -MaxProbeDepth
    /\ LET p == Vector(probe.x, probe.y, probe.z)
           k == Align(p, CHUNK_SIZE)
       IN  \E r \in {get_chunk(chunks, p, built, noise_field, pop_order)} :
           /\ chunks' = r.chunks
           /\ built' = IF r.constructed
                       THEN DictSet(built, k, Count(built, k) + 1)
                       ELSE built
           /\ last' = << [position |-> p, chunk |-> r.chunk, raised |-> r.raised,
                          constructed |-> r.constructed] >>
           /\ IF r.raised
              THEN probe' = [probe EXCEPT !.pc = "raised"]
              ELSE LET it == ProbeIteration(probe.x, probe.y, probe.z, r.chunk)
                   IN  probe' = [probe EXCEPT
                           !.z = it.z,
                           !.do = it.do,
                           !.pc = IF it.do THEN "loop" ELSE "preload",
                           !.player_position =
                               IF it.do THEN <<>>
                               ELSE Vector(probe.x, probe.y, it.z)]
    /\ UNCHANGED <<chunk_class, ctor, callers, walk, graph, noise_field, pop_order, returned,
                   cell_noise, cell_out, chunk_pos, chunk_out>>

(* One iteration of the preload loop (engine.py 39-40): the next call      *)
(* get_chunk(offset + player_position); preloaded counts the calls made.   *)
PreloadStep ==
    /\ probe # <<>> /\ probe.pc = "preload"
    /\ \E r \in {PreloadCall(chunks, built, probe.preloaded + 1,
                             probe.player_position, noise_field, pop_order)} :
           /\ chunks' = r.chunks
           /\ built' = r.built
           /\ probe' = [probe EXCEPT
                   !.preloaded = @ + 1,
                   !.pc = IF r.raised THEN "raised"
                          ELSE IF probe.preloaded + 1 = Len(PreloadOffsets)
                               THEN "done" ELSE "preload"]
    /\ UNCHANGED <<chunk_class, ctor, callers, walk, graph, noise_field, pop_order, returned, last,
                   cell_noise, cell_out, chunk_pos, chunk_out>>

ProbeNext == ProbeStep \/ PreloadStep

ProbeSpec == ProbeInit /\ [][ProbeNext]_vars

(* The chunk the probe is looking at: the one that holds (x, y, z).        *)
ProbeKey == Align(Vector(probe.x, probe.y, probe.z), CHUNK_SIZE)

(* C10: once the probe has got a chunk with a non-empty surfaces map, it   *)
(* returns a spawn point instead of looping: it is never still in the      *)
(* loop at a height whose chunk is in the store with non-empty surfaces.   *)
C10_ProbeReturnsOnceFound ==
    (probe.pc = "loop" /\ ProbeKey \in DOMAIN chunks) =>
        chunks[ProbeKey].terrain_surfaces = <<>>

(* The probe has left the while loop: player_position is set (line 37).    *)
ProbeReturned == probe.pc \in {"preload", "done"}

(* The chunk of the cell at height h of column (x, y) is in the store.     *)
ColumnLoaded(x, y, h) == Align(Vector(x, y, h), CHUNK_SIZE) \in DOMAIN chunks

(* The cell at height h of column (x, y) is a key of its chunk's surfaces. *)
ColumnKey(x, y, h) ==
    /\ ColumnLoaded(x, y, h)
    /\ VecMod(Vector(x, y, h), CHUNK_SIZE)
          \in DOMAIN chunks[Align(Vector(x, y, h), CHUNK_SIZE)].terrain_surfaces

(* C11: when the probe returns (x, y, z), the cell at height z-1 of column *)
(* (x, y) is a key of its chunk's surfaces map, and no cell of the column  *)
(* above it, up to the starting height, is a key: the chunks of those      *)
(* cells were fetched and hold no key for them.                            *)
C11_ProbeFindsHighestSurfaceCell ==
    ProbeReturned =>
        LET p == probe.player_position
        IN  /\ ColumnKey(p[1], p[2], p[3] - 1)
            /\ \A h \in p[3]..TERRAIN_HEIGHT_MULTIPLIER :
                  ColumnLoaded(p[1], p[2], h) /\ ~ColumnKey(p[1], p[2], h)

(* The probe returned the upper of two key cells of the column, one in     *)
(* the starting chunk and one in the chunk below it.                       *)
C11_Witness ==
    /\ probe # <<>> /\ probe.pc = "done"
    /\ ColumnKey(0, 0, probe.player_position[3] - 1)
    /\ probe.player_position[3] - 1 >= 0
    /\ ColumnKey(0, 0, -1)

----------------------------------------------------------------------------
(* Samples of lattice points shared by adjacent chunks.                    *)

(* The positions of the 26 chunks that share a face, an edge or a corner   *)
(* with the chunk at position.                                             *)
AdjacentChunks(position) ==
    {vec_add(position, Vector(CHUNK_SIZE * i, CHUNK_SIZE * j, CHUNK_SIZE * k)) :
        i \in -1..1, j \in -1..1, k \in -1..1} \ {position}

(* C12: a lattice point that belongs to the lattices of two chunks has the *)
(* same sample in both: the array of the constructed chunk agrees, at      *)
(* every point it shares with an adjacent chunk, with the array that the   *)
(* construction of that chunk computes, and both are the value of the      *)
(* field at the world point minus its height.                              *)
C12_SharedSamplesAgree ==
    (Constructed /\ ~IsEmptyByHeight(chunk_pos)) =>
        \A q \in AdjacentChunks(chunk_pos) : \A l \in Lattice :
            LET m == vec_sub(vec_add(chunk_pos, l), q)
            IN  (m \in Lattice /\ ~IsEmptyByHeight(q)) =>
                    /\ ChunkOut.noise[l] = ChunkNoise(noise_field, q)[m]
                    /\ ChunkOut.noise[l] = Sample(noise_field, vec_add(chunk_pos, l))

(* A constructed chunk whose face shared with the chunk below holds a      *)
(* sample that differs from the base of the field.                         *)
C12_Witness ==
    /\ Constructed /\ chunk_pos = <<0, 0, -CHUNK_SIZE>>
    /\ ~IsEmptyByHeight(<<0, 0, 0>>)
    /\ \E l \in Lattice :
          /\ l[3] = CHUNK_SIZE
          /\ vec_add(chunk_pos, l) \in DOMAIN noise_field.bumps
          /\ noise_field.bumps[vec_add(chunk_pos, l)] # noise_field.base
          /\ ChunkOut.noise[l] = noise_field.bumps[vec_add(chunk_pos, l)]

----------------------------------------------------------------------------
(* Crossing points of edges shared by several cells.                       *)

(* The world-space point of a cell-local vertex: chunk position + cell +   *)
(* vertex, as exact quotients.                                             *)
WorldPoint(position, cell, vertex) ==
    [i \in 1..3 |-> Frac(vertex[i][1] + (position[i] + cell[i]) * vertex[i][2],
                         vertex[i][2])]

(* Edge e of cell a of the chunk at p and edge f of cell b of the chunk at *)
(* q are the same edge of the world lattice.                               *)
SameWorldEdge(p, a, e, q, b, f) ==
    /\ vec_add(vec_add(p, a), e[1]) = vec_add(vec_add(q, b), f[1])
    /\ vec_add(vec_add(p, a), e[2]) = vec_add(vec_add(q, b), f[2])

(* engine.py 201-212 for the edge e of a cell with the samples cn.         *)
ComputedPoint(position, cell, cn, e) ==
    WorldPoint(position, cell, EdgeVertex(e[1], e[2], cn[e[1]], cn[e[2]]))

(* engine.py 122-124: the world-space vertices of the polygons the         *)
(* constructed chunk keeps under the key cell.                             *)
StoredWorldPoints(chunk, cell) ==
    IF cell \in DOMAIN chunk.terrain_surfaces
    THEN {WorldPoint(chunk.position, cell, vn[1]) :
             vn \in UNION chunk.terrain_surfaces[cell]}
    ELSE {}

(* The crossing points that the edge loop computes for one world edge in   *)
(* two cells, of the constructed chunk or of it and an adjacent chunk,     *)
(* are equal whenever both cells run the loop.  d is the offset between    *)
(* the two cells, f the edge of b that is the edge e of a.                 *)
ComputedPointsAgree ==
    (Constructed /\ ~IsEmptyByHeight(chunk_pos)) =>
        \A q \in {p \in AdjacentChunks(chunk_pos) \cup {chunk_pos} : ~IsEmptyByHeight(p)} :
            \A nq \in {ChunkNoise(noise_field, q)} :
                \A a \in LocalCells, b \in LocalCells :
                    \A cna \in {CellNoise(ChunkOut.noise, a)}, cnb \in {CellNoise(nq, b)},
                       d \in {vec_sub(vec_add(chunk_pos, a), vec_add(q, b))} :
                        (~HasZeroCorner(cna) /\ ~HasZeroCorner(cnb)) =>
                            \A e \in DOMAIN CellEdgeValues(cna) :
                                \A f \in {<<vec_add(e[1], d), vec_add(e[2], d)>>} \cap cube_edges :
                                    /\ SameWorldEdge(chunk_pos, a, e, q, b, f)
                                    /\ f \in DOMAIN CellEdgeValues(cnb)
                                    /\ ComputedPoint(q, b, cnb, f) = ComputedPoint(chunk_pos, a, cna, e)

----------------------------------------------------------------------------
(* Chunks without a surface.                                               *)

(* engine.py 196-199: the cells of terrain_cells for which the loop prints *)
(* the zero-sample message and continues.                                  *)
ReportedCells(noise) ==
    LET cells == TerrainCells(noise)
    IN  {cells[i] : i \in {j \in 1..Len(cells) :
                              HasZeroCorner(CellNoise(noise, cells[j]))}}

AllNegative(noise) == \A l \in DOMAIN noise : noise[l] < 0

AllPositive(noise) == \A l \in DOMAIN noise : noise[l] > 0

(* C13: when every sample of the chunk's lattice has the same strict sign, *)
(* no cell is active, the surfaces map is empty, and no cell is reported   *)
(* for a zero sample.                                                      *)
C13_UniformSignChunkIsEmpty ==
    (/\ Constructed /\ ~IsEmptyByHeight(chunk_pos)
     /\ (AllNegative(ChunkOut.noise) \/ AllPositive(ChunkOut.noise))) =>
        /\ ~ChunkOut.raised
        /\ TerrainCells(ChunkOut.noise) = <<>>
        /\ ChunkOut.terrain_surfaces = <<>>
        /\ ReportedCells(ChunkOut.noise) = {}

(* The field of the example: -1 at every point, over the chunk at the      *)
(* origin, whose 27 samples were computed and are all negative.            *)
C13_Witness ==
    /\ Constructed /\ chunk_pos = <<0, 0, 0>>
    /\ noise_field = [base |-> -1, bumps |-> <<>>]
    /\ DOMAIN ChunkOut.noise = Lattice
    /\ AllNegative(ChunkOut.noise)
    /\ ChunkOut.terrain_surfaces = <<>>

----------------------------------------------------------------------------
(* Corner configurations of one cell.                                      *)

(* The number of components in which the corners a and b differ.           *)
Differing(a, b) == Cardinality({i \in 1..3 : a[i] # b[i]})

(* The vertices of a polygon: the first parts of its (vertex, normal)      *)
(* pairs.                                                                  *)
PolygonVertices(poly) == {vn[1] : vn \in poly}

(* Two corners lying diagonally opposite on one face have one sign and the *)
(* other six corners the opposite sign; no sample is zero.                 *)
FaceDiagonalConfig(cn) ==
    /\ ~HasZeroCorner(cn)
    /\ \E a, b \in DOMAIN cn :
          /\ Differing(a, b) = 2
          /\ (cn[a] < 0) = (cn[b] < 0)
          /\ \A c \in DOMAIN cn \ {a, b} : (cn[c] < 0) # (cn[a] < 0)

(* C14: a cell in the face-diagonal configuration yields exactly two       *)
(* disjoint polygons, each with at least 3 vertices, whichever sign the    *)
(* diagonal pair has.                                                      *)
C14_FaceDiagonalTwoPolygons ==
    (Extracted /\ FaceDiagonalConfig(cell_noise)) =>
        /\ Cardinality(CellOut.surfaces) = 2
        /\ \A p \in CellOut.surfaces : Cardinality(PolygonVertices(p)) >= 3
        /\ \A p, q \in CellOut.surfaces :
              p # q => PolygonVertices(p) \cap PolygonVertices(q) = {}

----------------------------------------------------------------------------
(* Flat ground: fields f(x, y, z) = h - z.  In the units of the samples    *)
(* the field has the base NoiseScale * h at every point and no bumps; h    *)
(* ranges over the multiples of 1 / NoiseScale from two cells below the    *)
(* chunk at the origin to two cells above it.  These are the fields of the *)
(* flat-ground example; they are not bounded by NoiseMax, the range of the *)
(* noise under the scaled-down TERRAIN_HEIGHT_MULTIPLIER.                  *)

FlatBases ==
    (-(NoiseScale * (CHUNK_SIZE + 2)))..(NoiseScale * (CHUNK_SIZE + 2))

FlatFields == {[base |-> b, bumps |-> <<>>] : b \in FlatBases}

FlatPositions == {<<0, 0, 0>>, <<0, 0, -CHUNK_SIZE>>}

FlatInit ==
    /\ noise_field \in FlatFields
    /\ pop_order \in PopOrders
    /\ chunk_pos \in FlatPositions
    /\ chunk_out = <<>>
    /\ StoreUnused /\ CellUnused /\ ProbeUnused /\ ClassUnused
    /\ CallersUnused /\ WalkUnused /\ GraphUnused

FlatSpec == FlatInit /\ [][ChunkNext]_vars

(* The world height of a vertex of the given cell of the chunk at          *)
(* chunk_pos: vertices are relative to the cell.                           *)
WorldZ(cell, vertex) ==
    Frac((chunk_pos[3] + cell[3]) * vertex[3][2] + vertex[3][1], vertex[3][2])

(* The keys of the surfaces map are the cells of the horizontal layer k,   *)
(* each holds one polygon, of 4 vertices, all at the height ground, with   *)
(* the one normal for all of them.                                         *)
OneFlatLayer(k, ground, normal) ==
    /\ DOMAIN ChunkOut.terrain_surfaces = {c \in LocalCells : c[3] = k}
    /\ \A cell \in DOMAIN ChunkOut.terrain_surfaces :
          /\ Cardinality(ChunkOut.terrain_surfaces[cell]) = 1
          /\ \A poly \in ChunkOut.terrain_surfaces[cell] :
                /\ Cardinality(PolygonVertices(poly)) = 4
                /\ \A vn \in poly : WorldZ(cell, vn[1]) = ground /\ vn[2] = normal

(* C15 as stated, with the chunk size and the ground in proportion: the    *)
(* field (CHUNK_SIZE + 1) - z over the chunk at the origin (5 - z for a    *)
(* chunk of size 4) yields one horizontal layer of active cells, each with *)
(* one 4-vertex polygon in the plane of the ground and the normals all     *)
(* (0, 0, 1) or all (0, 0, -1).                                            *)
C15_FlatGroundAboveChunk ==
    (/\ Constructed /\ chunk_pos = <<0, 0, 0>>
     /\ noise_field.base = NoiseScale * (CHUNK_SIZE + 1)) =>
        \E k \in 0..(CHUNK_SIZE - 1) : \E n \in {<<0, 0, 1>>, <<0, 0, -1>>} :
            OneFlatLayer(k, Frac(CHUNK_SIZE + 1, 1), n)

(* C15, amended: for the field h - z, when h lies strictly between two     *)
(* consecutive lattice heights of the chunk, the layer of cells at         *)
(* floor(h) is the one active layer, each cell with one 4-vertex polygon   *)
(* in the plane z = h and the normals (0, 0, 1); for every other h (a      *)
(* lattice height, or a height outside the chunk, as 5 for the chunk of    *)
(* size 4 at the origin) the surfaces map is empty.                        *)
C15_FlatGroundBetweenLattice ==
    Constructed =>
        LET b == noise_field.base
            k == (b \div NoiseScale) - chunk_pos[3]
        IN  IF b % NoiseScale # 0 /\ k \in 0..(CHUNK_SIZE - 1)
            THEN OneFlatLayer(k, Frac(b, NoiseScale), <<0, 0, 1>>)
            ELSE ChunkOut.terrain_surfaces = <<>>

(* The ground half a cell above the bottom of the chunk at the origin.     *)
C15_Witness ==
    /\ Constructed /\ chunk_pos = <<0, 0, 0>>
    /\ noise_field.base % NoiseScale # 0
    /\ noise_field.base \div NoiseScale = 0
    /\ Cardinality(DOMAIN ChunkOut.terrain_surfaces) = CHUNK_SIZE * CHUNK_SIZE

----------------------------------------------------------------------------
(* The winding of the polygons of one cell: cells without a zero corner,   *)
(* every corner drawn from WindVals.                                       *)

WindVals == {-2, -1, 1}

WindInit ==
    /\ cell_noise \in [DOMAIN cube_nodes -> WindVals]
    /\ pop_order \in PopOrders
    /\ cell_out = <<>>
    /\ noise_field = NoField
    /\ StoreUnused /\ ChunkUnused /\ ProbeUnused /\ ClassUnused
    /\ CallersUnused /\ WalkUnused /\ GraphUnused

WindCell ==
    /\ cell_out = <<>>
    /\ cell_out' = << CellExtraction(cell_noise, <<>>, pop_order) >>
    /\ UNCHANGED <<chunk_class, ctor, callers, walk, graph, noise_field, pop_order, chunks, built, returned, last,
                   cell_noise, chunk_pos, chunk_out, probe>>

WindNext == WindCell

WindSpec == WindInit /\ [][WindNext]_vars

Wound == cell_out # <<>> /\ "ordered" \in DOMAIN cell_out[1]

(* Twice the area enclosed by the list q of (vertex, normal) pairs of      *)
(* poly, projected along the mean normal and signed by the sense of        *)
(* rotation around it (positive: counter-clockwise), times a positive      *)
(* factor.                                                                 *)
SignedArea(poly, q) ==
    LET d == Denominator(poly)
        n == MeanNormal(poly)
        r == [i \in 1..Len(q) |-> Centered(poly, q[i], d)]
        RECURSIVE Sum(_)
        Sum(i) == IF i = 0 THEN 0
                  ELSE Dot(Cross(r[i], r[(i % Len(q)) + 1]), n) + Sum(i - 1)
    IN  Sum(Len(q))

(* q2 lists the members of q1 in the same cyclic order.                    *)
SameCycle(q1, q2) ==
    /\ Len(q1) = Len(q2)
    /\ \E k \in 0..(Len(q1) - 1) :
          \A i \in 1..Len(q1) : q2[i] = q1[((i - 1 + k) % Len(q1)) + 1]

(* C16: every polygon of a cell is stored counter-clockwise around its own *)
(* mean normal (positive signed area), and the lists stored for two        *)
(* different first-recorded vertices have the same cyclic order.           *)
C16_WindingConsistent ==
    Wound =>
        \A poly \in cell_out[1].surfaces :
            \A h1, h2 \in poly :
                \A q1 \in cell_out[1].ordered[poly][h1], q2 \in cell_out[1].ordered[poly][h2] :
                    /\ SignedArea(poly, q1) > 0
                    /\ SameCycle(q1, q2)

----------------------------------------------------------------------------
(* The class attributes of Chunk over a series of constructions:           *)
(* Chunk.cube_graph is None until make_cube_graph stores the graph it      *)
(* built; every Graph() object gets an identity, so that a second graph    *)
(* with the same nodes and edges is told from the first.                   *)

MaxConstructions == 3

(* Positions of a chunk in the terrain band, one above it (z0 > z_max) and *)
(* one below it (z1 < z_min).                                              *)
ClassPositions ==
    { <<0, 0, 0>>,
      <<0, 0, CHUNK_SIZE * (TERRAIN_HEIGHT_MULTIPLIER \div CHUNK_SIZE + 1)>>,
      <<0, 0, -(CHUNK_SIZE * (TERRAIN_HEIGHT_MULTIPLIER \div CHUNK_SIZE + 2))>> }

ClassInit ==
    /\ chunk_class = [cube_graph |-> <<>>, numba_cube_nodes |-> <<>>,
                      numba_cube_edges |-> <<>>]
    /\ ctor = [pc |-> "idle", position |-> <<>>, graph |-> <<>>, i |-> 0,
               graphs |-> 0, done |-> <<>>]
    /\ noise_field = NoField
    /\ pop_order = <<>>
    /\ StoreUnused /\ CellUnused /\ ChunkUnused /\ ProbeUnused
    /\ CallersUnused /\ WalkUnused /\ GraphUnused

ClassFrame ==
    UNCHANGED <<callers, walk, graph, noise_field, pop_order, chunks, built, returned, last,
                cell_noise, cell_out, chunk_pos, chunk_out, probe>>

(* engine.py 137, mutated: the attribute is taken for None every time.     *)
CubeGraphIsNoneAlways(cls) == TRUE

(* engine.py 137: self.cube_graph is None.                                 *)
CubeGraphIsNone(cls) == cls.cube_graph = <<>>

(* engine.py 61-62: Chunk(position) starts and calls make_cube_graph.      *)
ChunkNew(position) ==
    /\ ctor.pc = "idle"
    /\ Len(ctor.done) < MaxConstructions
    /\ ctor' = [ctor EXCEPT !.pc = "make_cube_graph", !.position = position]
    /\ UNCHANGED chunk_class
    /\ ClassFrame

(* engine.py 137-138: the graph exists, make_cube_graph returns.           *)
MakeCubeGraphReturn ==
    /\ ctor.pc = "make_cube_graph"
    /\ ~CubeGraphIsNone(chunk_class)
    /\ ctor' = [ctor EXCEPT !.pc = "body"]
    /\ UNCHANGED chunk_class
    /\ ClassFrame

(* engine.py 140: cube_graph = Graph(), a new object.                      *)
MakeCubeGraphNew ==
    /\ ctor.pc = "make_cube_graph"
    /\ CubeGraphIsNone(chunk_class)
    /\ ctor' = [ctor EXCEPT !.pc = "add_edge",
                            !.graph = [id |-> ctor.graphs + 1, graph |-> EmptyGraph],
                            !.graphs = @ + 1,
                            !.i = 1]
    /\ UNCHANGED chunk_class
    /\ ClassFrame

(* engine.py 151-166: the next add_edge call.                              *)
MakeCubeGraphAddEdge ==
    /\ ctor.pc = "add_edge"
    /\ ctor.i <= Len(CubeEdgeCalls)
    /\ ctor' = [ctor EXCEPT
                  !.graph.graph = add_edge(@, CubeEdgeCalls[ctor.i][1],
                                           CubeEdgeCalls[ctor.i][2], NoData),
                  !.i = @ + 1]
    /\ UNCHANGED chunk_class
    /\ ClassFrame

(* engine.py 168-184: the graph and its two numba copies become class      *)
(* attributes.                                                             *)
MakeCubeGraphStore ==
    /\ ctor.pc = "add_edge"
    /\ ctor.i > Len(CubeEdgeCalls)
    /\ chunk_class' =
          [cube_graph |-> <<ctor.graph>>,
           numba_cube_nodes |-> ctor.graph.graph.nodes,
           numba_cube_edges |-> [e \in DOMAIN ctor.graph.graph.edges |-> 0]]
    /\ ctor' = [ctor EXCEPT !.pc = "body", !.graph = <<>>, !.i = 0]
    /\ ClassFrame

(* engine.py 64-134: the rest of the constructor reads self.cube_graph and *)
(* the numba copies, and returns early for a chunk outside the terrain     *)
(* band; it assigns no class attribute and calls no method of the graph.   *)
ChunkBody ==
    /\ ctor.pc = "body"
    /\ ctor' = [ctor EXCEPT
                  !.pc = "idle",
                  !.position = <<>>,
                  !.done = Append(@, [position |-> ctor.position,
                                      empty |-> IsEmptyByHeight(ctor.position),
                                      cube_graph |-> chunk_class.cube_graph])]
    /\ UNCHANGED chunk_class
    /\ ClassFrame

ClassNext ==
    \/ \E position \in ClassPositions : ChunkNew(position)
    \/ MakeCubeGraphReturn
    \/ MakeCubeGraphNew
    \/ MakeCubeGraphAddEdge
    \/ MakeCubeGraphStore
    \/ ChunkBody

ClassSpec == ClassInit /\ [][ClassNext]_vars

(* The corner offsets: every component 0 or 1.                             *)
CornerOffsets == {<<x, y, z>> : x \in {0, 1}, y \in {0, 1}, z \in {0, 1}}

(* C17: the graph make_cube_graph stores has the eight corner offsets as   *)
(* its nodes and twelve edges; every edge joins two corners that differ in *)
(* exactly one component, every two such corners are joined by an edge,    *)
(* and every corner has exactly three neighbours.                          *)
C17_CubeGraphShape ==
    ~CubeGraphIsNone(chunk_class) =>
        LET g == chunk_class.cube_graph[1].graph
        IN  /\ DOMAIN g.nodes = CornerOffsets
            /\ Cardinality(DOMAIN g.nodes) = 8
            /\ Cardinality(DOMAIN g.edges) = 12
            /\ \A e \in DOMAIN g.edges :
                  /\ e[1] \in CornerOffsets /\ e[2] \in CornerOffsets
                  /\ Differing(e[1], e[2]) = 1
            /\ \A a, b \in CornerOffsets :
                  Differing(a, b) = 1 => edge_key(a, b) \in DOMAIN g.edges
            /\ \A c \in CornerOffsets :
                  /\ Cardinality(g.nodes[c]) = 3
                  /\ g.nodes[c] = {b \in CornerOffsets : Differing(c, b) = 1}
            /\ chunk_class.numba_cube_nodes = cube_nodes
            /\ DOMAIN chunk_class.numba_cube_edges = cube_edges

(* The graph is stored and a constructor has used it.                      *)
C17_Witness ==
    /\ ~CubeGraphIsNone(chunk_class)
    /\ chunk_class.cube_graph[1].graph = make_cube_graph
    /\ Len(ctor.done) > 0

(* A constructor has returned for every kind of position after the first  *)
(* construction.                                                           *)
LaterConstructions == {ctor.done[i] : i \in 2..Len(ctor.done)}

(* C18: one Graph object is built, during the first construction; once     *)
(* stored, the class attributes never change; and every constructor that   *)
(* has returned, early exit or not, ran with that one graph.               *)
C18_CubeGraphBuiltOnceAndShared ==
    /\ [](/\ ctor.graphs <= 1
          /\ (ctor.graphs = 1 => Len(ctor.done) = 0 \/ ~CubeGraphIsNone(chunk_class))
          /\ \A i \in 1..Len(ctor.done) :
                /\ ctor.done[i].cube_graph = chunk_class.cube_graph
                /\ ctor.done[i].cube_graph # <<>>
                /\ ctor.done[i].cube_graph[1].id = 1
                /\ ctor.done[i].cube_graph[1].graph = make_cube_graph)
    /\ [][chunk_class.cube_graph # <<>> => chunk_class' = chunk_class]_vars

(* Three constructions have returned, the later ones one with the early    *)
(* exit and one without it.                                                *)
C18_Witness ==
    /\ ctor.pc = "idle"
    /\ Len(ctor.done) > 2
    /\ \E c \in LaterConstructions : c.empty
    /\ \E c \in LaterConstructions : ~c.empty
    /\ ctor.graphs = 1

----------------------------------------------------------------------------
(* Two callers inside get_chunk at once.  Each caller asks for its own     *)
(* position MaxCalls times; the two positions align to different keys.  A  *)
(* step is one of: align (engine.py 47), the membership test (49), the     *)
(* construction (50), the insert (51), the lookup (53), the return (55).   *)

MaxCalls == 2

Callers == {1, 2}

CallerFields == Fields({-1}, {<<0, 0, 0>>}, {1}, 1)

CallersInit ==
    /\ noise_field \in CallerFields
    /\ pop_order \in PopOrders
    /\ chunks = <<>>
    /\ built = <<>>
    /\ returned = <<>>
    /\ last = <<>>
    /\ \E p1, p2 \in CallPositions :
          /\ Align(p1, CHUNK_SIZE) # Align(p2, CHUNK_SIZE)
          /\ callers = [c \in Callers |->
                          [position |-> IF c = 1 THEN p1 ELSE p2, pc |-> "align",
                           aligned |-> None, chunk |-> None, seen |-> <<>>,
                           raced |-> FALSE, results |-> <<>>]]
    /\ CellUnused /\ ChunkUnused /\ ProbeUnused /\ ClassUnused /\ WalkUnused /\ GraphUnused

CallersFrame ==
    UNCHANGED <<noise_field, pop_order, returned, last, cell_noise, cell_out,
                chunk_pos, chunk_out, probe, chunk_class, ctor, walk, graph>>

(* The dict the insert writes into, mutated: the dict as the caller saw it *)
(* at its membership test.                                                 *)
StoreAtInsertStale(current, seen) == seen

(* engine.py 51: self.chunks[aligned] = chunk writes into the dict as it   *)
(* is at the time of the insert.                                           *)
StoreAtInsert(current, seen) == current

(* engine.py 47: aligned = position.align(defs.CHUNK_SIZE)                 *)
AlignStep(c) ==
    /\ callers[c].pc = "align"
    /\ Len(callers[c].results) < MaxCalls
    /\ callers' = [callers EXCEPT ![c].pc = "test",
                                  ![c].aligned = Align(callers[c].position, CHUNK_SIZE)]
    /\ UNCHANGED <<chunks, built>>
    /\ CallersFrame

(* engine.py 49: if aligned not in self.chunks.  seen keeps the dict as it *)
(* was at the test.                                                        *)
TestStep(c) ==
    /\ callers[c].pc = "test"
    /\ callers' = [callers EXCEPT
                     ![c].pc = IF NotInStore(chunks, callers[c].aligned)
                               THEN "construct" ELSE "lookup",
                     ![c].seen = chunks]
    /\ UNCHANGED <<chunks, built>>
    /\ CallersFrame

(* The identity of a constructed object, mutated: every construction for a *)
(* key yields the same object.                                             *)
ObjectIdShared(built_, aligned) == <<aligned, 1>>

(* engine.py 50: Chunk(aligned) is a new object at every call; its         *)
(* identity is the key with the number of the construction for that key.   *)
ObjectId(built_, aligned) == <<aligned, Count(built_, aligned) + 1>>

(* engine.py 50: chunk = Chunk(aligned)                                    *)
ConstructStep(c) ==
    /\ callers[c].pc = "construct"
    /\ \E n \in {NewChunk(noise_field, callers[c].aligned, pop_order)} :
          callers' = [callers EXCEPT
                        ![c].pc = IF n.raised THEN "raised" ELSE "insert",
                        ![c].chunk =
                            IF n.raised THEN None
                            ELSE [position |-> n.position,
                                  terrain_surfaces |-> n.terrain_surfaces,
                                  id |-> ObjectId(built, callers[c].aligned)]]
    /\ built' = DictSet(built, callers[c].aligned, Count(built, callers[c].aligned) + 1)
    /\ UNCHANGED chunks
    /\ CallersFrame

(* engine.py 51: self.chunks[aligned] = chunk.  raced records that the     *)
(* other caller changed the dict between this caller's test and insert.    *)
InsertStep(c) ==
    /\ callers[c].pc = "insert"
    /\ chunks' = InsertChunk(StoreAtInsert(chunks, callers[c].seen),
                             callers[c].aligned, callers[c].chunk)
    /\ callers' = [callers EXCEPT ![c].pc = "return",
                                  ![c].raced = @ \/ chunks # callers[c].seen]
    /\ UNCHANGED built
    /\ CallersFrame

(* engine.py 53: chunk = self.chunks[aligned]                              *)
LookupStep(c) ==
    /\ callers[c].pc = "lookup"
    /\ callers' = [callers EXCEPT ![c].pc = "return",
                                  ![c].chunk = chunks[callers[c].aligned]]
    /\ UNCHANGED <<chunks, built>>
    /\ CallersFrame

(* engine.py 55: return chunk; the caller may call again.                  *)
ReturnStep(c) ==
    /\ callers[c].pc = "return"
    /\ callers' = [callers EXCEPT ![c].pc = "align",
                                  ![c].results = Append(@, callers[c].chunk),
                                  ![c].aligned = None,
                                  ![c].chunk = None]
    /\ UNCHANGED <<chunks, built>>
    /\ CallersFrame

CallersNext ==
    \E c \in Callers :
        \/ AlignStep(c)
        \/ TestStep(c)
        \/ ConstructStep(c)
        \/ InsertStep(c)
        \/ LookupStep(c)
        \/ ReturnStep(c)

CallersSpec == CallersInit /\ [][CallersNext]_vars

CallerKey(c) == Align(callers[c].position, CHUNK_SIZE)

(* The caller has returned from at least one call and is in no call.       *)
CallerIdle(c) == callers[c].pc = "align" /\ callers[c].results # <<>>

(* C19: whatever the interleaving of the steps of two callers whose        *)
(* positions align to different keys, once both have returned, the store   *)
(* holds a chunk under each of the two keys, each was constructed exactly  *)
(* once, and every call returned the chunk stored under the caller's own   *)
(* key, with the surfaces its construction yields.                         *)
C19_DifferentKeysConflictFree ==
    (\A c \in Callers : CallerIdle(c)) =>
        \A c \in Callers :
            /\ CallerKey(c) \in DOMAIN chunks
            /\ chunks[CallerKey(c)].position = CallerKey(c)
            /\ chunks[CallerKey(c)].terrain_surfaces =
                  NewChunk(noise_field, CallerKey(c), pop_order).terrain_surfaces
            /\ Count(built, CallerKey(c)) = 1
            /\ \A i \in 1..Len(callers[c].results) :
                  callers[c].results[i] = chunks[CallerKey(c)]

(* Both callers have returned from all their calls, each built its chunk   *)
(* while the other one was changing the store, and one chunk has surfaces. *)
C19_Witness ==
    /\ \A c \in Callers : CallerIdle(c) /\ Len(callers[c].results) = MaxCalls
    /\ \E c \in Callers : callers[c].raced
    /\ \E c \in Callers : chunks[CallerKey(c)].terrain_surfaces # <<>>

(* Two callers inside get_chunk at once whose positions align to the same  *)
(* key: the same position or two positions of one chunk.                   *)
SameKeyInit ==
    /\ noise_field \in CallerFields
    /\ pop_order \in PopOrders
    /\ chunks = <<>>
    /\ built = <<>>
    /\ returned = <<>>
    /\ last = <<>>
    /\ \E p1, p2 \in CallPositions :
          /\ Align(p1, CHUNK_SIZE) = Align(p2, CHUNK_SIZE)
          /\ callers = [c \in Callers |->
                          [position |-> IF c = 1 THEN p1 ELSE p2, pc |-> "align",
                           aligned |-> None, chunk |-> None, seen |-> <<>>,
                           raced |-> FALSE, results |-> <<>>]]
    /\ CellUnused /\ ChunkUnused /\ ProbeUnused /\ ClassUnused /\ WalkUnused /\ GraphUnused

SameKeySpec == SameKeyInit /\ [][CallersNext]_vars

(* The caller is past its construction in a call whose membership test     *)
(* found the key missing.                                                  *)
PastConstruction(c) ==
    /\ callers[c].pc \in {"insert", "return"}
    /\ callers[c].aligned \notin DOMAIN callers[c].seen

(* C25: nothing in get_chunk keeps two callers apart.  Whenever two calls  *)
(* on the same key have both tested membership before either inserted,     *)
(* both construct: two Chunk objects exist for the key, the callers hold   *)
(* different ones, and at most one of them is the chunk the store keeps.   *)
C25_SameKeyCallsBothConstruct ==
    \A c, d \in Callers :
        (c # d /\ PastConstruction(c) /\ PastConstruction(d)) =>
            /\ callers[c].aligned = callers[d].aligned
            /\ Count(built, callers[c].aligned) >= 2
            /\ callers[c].chunk.id # callers[d].chunk.id
            /\ (callers[c].pc = "return" /\ callers[d].pc = "return") =>
                   \E e \in {c, d} : chunks[callers[e].aligned].id # callers[e].chunk.id

(* Both callers have returned from their first call, on the same key, with *)
(* different Chunk objects, two constructions were made for the key and    *)
(* the store holds one of them.                                            *)
C25_Witness ==
    /\ \A c \in Callers : CallerIdle(c)
    /\ CallerKey(1) = CallerKey(2)
    /\ callers[1].results[1].id # callers[2].results[1].id
    /\ Count(built, CallerKey(1)) = 2
    /\ chunks[CallerKey(1)].id \in {callers[1].results[1].id, callers[2].results[1].id}

----------------------------------------------------------------------------
(* The groups of corners of a cell, found without the walk: corners are    *)
(* adjacent when they differ in one component.                             *)

(* engine.py 225, 229: a corner the walk does not skip (not cn < 0).       *)
NonNegative(cn) == {c \in DOMAIN cn : ~(cn[c] < 0)}

(* The non-negative corners reachable from S through non-negative corners. *)
RECURSIVE Reach(_, _)
Reach(S, cn) ==
    LET T == S \cup {n \in NonNegative(cn) : \E c \in S : Differing(c, n) = 1}
    IN  IF T = S THEN S ELSE Reach(T, cn)

(* The connected components of the non-negative corners.                   *)
Components(cn) == {Reach({c}, cn) : c \in NonNegative(cn)}

(* The crossings of a component: its pairs of a corner and a negative      *)
(* neighbour of that corner.                                               *)
NegativeNeighbours(S, cn) ==
    {<<c, n>> \in S \X (DOMAIN cn) : Differing(c, n) = 1 /\ cn[n] < 0}

(* C20: for a cell with no zero corner the number of polygons is the       *)
(* number of connected components of non-negative corners that have a      *)
(* negative neighbour, each such component giving one polygon with one     *)
(* vertex per negative neighbour of its corners; a component without a     *)
(* negative neighbour (the cell with no negative corner) gives none.       *)
C20_OnePolygonPerComponent ==
    (Extracted /\ ~HasZeroCorner(cell_noise)) =>
        LET with == {S \in Components(cell_noise) :
                        NegativeNeighbours(S, cell_noise) # {}}
        IN  /\ Cardinality(CellOut.surfaces) = Cardinality(with)
            /\ \A S \in with : \E poly \in CellOut.surfaces :
                  {vn[2] : vn \in poly} =
                      {vec_sub(e[2], e[1]) : e \in NegativeNeighbours(S, cell_noise)}
                  /\ Cardinality(poly) = Cardinality(NegativeNeighbours(S, cell_noise))
            /\ (with = {} => CellOut.surfaces = {})

(* Four separate non-negative corners, each with its own polygon.          *)
C20_Witness ==
    /\ Extracted /\ ~HasZeroCorner(cell_noise)
    /\ Cardinality(Components(cell_noise)) = 4
    /\ Cardinality(CellOut.surfaces) = 4

----------------------------------------------------------------------------
(* numba_make_terrain_surfaces statement by statement, with the lists of   *)
(* the code as sequences: the loop over the cells, the seeds, the visits   *)
(* of one node with its neighbour loop, the closing of a patch, the end of *)
(* a cell.  The cells are a previous cell from PrevCells followed by any   *)
(* cell over WalkVals.                                                     *)

WalkVals == {-1, 1}

(* Previous cells: one corner cut off, the lower half negative, a zero     *)
(* corner (skipped), no crossing at all.                                   *)
PrevCells ==
    { [c \in DOMAIN cube_nodes |-> IF c = <<1, 0, 1>> THEN 2 ELSE -1],
      [c \in DOMAIN cube_nodes |-> IF c[3] = 0 THEN -2 ELSE 1],
      [c \in DOMAIN cube_nodes |-> IF c = <<0, 1, 0>> THEN 0 ELSE -1],
      [c \in DOMAIN cube_nodes |-> 1] }

NoCount == [c \in DOMAIN cube_nodes |-> 0]

WalkInit ==
    /\ pop_order \in PopOrders
    /\ cell_noise = <<>>
    /\ \E prev \in PrevCells : \E cur \in [DOMAIN cube_nodes -> WalkVals] :
          walk = [pc |-> "cell", cells |-> <<prev, cur>>, i |-> 1,
                  terrain_surfaces |-> <<>>, edge_values |-> <<>>,
                  unvisited |-> {}, visit_next |-> <<>>,
                  surface_vertices |-> <<>>, cell_surfaces |-> <<>>,
                  recorded |-> <<>>, taken |-> NoCount, visited |-> NoCount,
                  err |-> FALSE]
    /\ cell_out = <<>>
    /\ noise_field = NoField
    /\ StoreUnused /\ ChunkUnused /\ ProbeUnused /\ ClassUnused /\ CallersUnused
    /\ GraphUnused

WalkFrame ==
    UNCHANGED <<noise_field, pop_order, chunks, built, returned, last, cell_out,
                chunk_pos, chunk_out, probe, chunk_class, ctor, callers, graph>>

(* The normal with its two operands exchanged.                             *)
RecordedNormalReversed(node, neighbor) == vec_sub(node, neighbor)

(* engine.py 233: normal = vec_sub(neighbor, node)                         *)
RecordedNormal(node, neighbor) == vec_sub(neighbor, node)

(* The push of a neighbour without its removal from unvisited.             *)
RemoveFromNot(unvisited, neighbor) == unvisited

(* engine.py 237: unvisited.remove(neighbor)                               *)
RemoveFrom(unvisited, neighbor) == unvisited \ {neighbor}

(* The list surface_vertices kept after a patch is closed.                 *)
ClearedKept(surface_vertices) == surface_vertices

(* engine.py 303: surface_vertices.clear()                                 *)
Cleared(surface_vertices) == <<>>

(* engine.py 228-237: the loop over the neighbours nbrs of node, in the    *)
(* order of the tuple.  taken counts, per corner, the removals from        *)
(* unvisited; err: edge_values[edge] raised KeyError.                      *)
RECURSIVE VisitNeighbors(_, _, _, _)
VisitNeighbors(w, node, nbrs, cn) ==
    IF nbrs = <<>> \/ w.err THEN w
    ELSE CHOOSE out \in
        { VisitNeighbors(
              IF cn[neighbor] < 0
              THEN IF edge_key(node, neighbor) \in DOMAIN w.edge_values
                   THEN [w EXCEPT !.surface_vertices =
                            Append(@, <<w.edge_values[edge_key(node, neighbor)],
                                        RecordedNormal(node, neighbor)>>)]
                   ELSE [w EXCEPT !.err = TRUE]
              ELSE IF neighbor \in w.unvisited
                   THEN [w EXCEPT !.visit_next = Append(@, neighbor),
                                  !.unvisited = RemoveFrom(@, neighbor),
                                  !.taken[neighbor] = @ + 1]
                   ELSE w,
              node, Tail(nbrs), cn) : neighbor \in {Head(nbrs)} } : TRUE

(* engine.py 192-216: the next cell of the loop.  A cell with a zero       *)
(* corner takes the continue; otherwise the crossing points of its edges   *)
(* are written to edge_values and the walk starts with all eight corners   *)
(* unvisited.                                                              *)
CellBegin ==
    /\ walk.pc = "cell"
    /\ walk.i <= Len(walk.cells)
    /\ cell_noise' = walk.cells[walk.i]
    /\ walk' = IF HasZeroCorner(walk.cells[walk.i])
               THEN [walk EXCEPT !.i = @ + 1, !.taken = NoCount, !.visited = NoCount,
                                 !.recorded = <<>>, !.cell_surfaces = <<>>]
               ELSE [walk EXCEPT
                       !.pc = "seed",
                       !.edge_values = UpdateEdgeValues(@, walk.cells[walk.i]),
                       !.unvisited = DOMAIN cube_nodes,
                       !.cell_surfaces = <<>>,
                       !.surface_vertices = <<>>,
                       !.recorded = <<>>, !.taken = NoCount, !.visited = NoCount]
    /\ WalkFrame

(* engine.py 218-220: visit_next = [unvisited.pop()]                       *)
SeedStep ==
    /\ walk.pc = "seed"
    /\ walk.unvisited # {}
    /\ \E seed \in {Pick(walk.unvisited, pop_order)} :
          walk' = [walk EXCEPT !.pc = "visit",
                               !.unvisited = @ \ {seed},
                               !.visit_next = <<seed>>,
                               !.taken[seed] = @ + 1]
    /\ UNCHANGED cell_noise
    /\ WalkFrame

(* engine.py 222-237: node = visit_next.pop(); a negative node is passed   *)
(* over, any other node runs the neighbour loop.  visited counts, per      *)
(* corner, the pops from visit_next.                                       *)
VisitStep ==
    /\ walk.pc = "visit"
    /\ walk.visit_next # <<>>
    /\ \E node \in {walk.visit_next[Len(walk.visit_next)]} :
       \E w1 \in {[walk EXCEPT !.visit_next = SubSeq(@, 1, Len(@) - 1),
                               !.visited[node] = @ + 1]} :
          walk' = IF cell_noise[node] < 0 THEN w1
                  ELSE CHOOSE w2 \in
                          { IF w.err THEN [w EXCEPT !.pc = "raised"] ELSE w :
                              w \in {VisitNeighbors(w1, node,
                                         SetToSeq(cube_nodes[node], pop_order),
                                         cell_noise)} } : TRUE
    /\ UNCHANGED cell_noise
    /\ WalkFrame

(* engine.py 239-300: the polygons the winding is applied to in the walks  *)
(* of WalkInit and WalkLiveInit, with their windings worked out once;      *)
(* WindOf(poly) is Wind(poly).                                             *)
WalkPolygons ==
    UNION {CellSurfaces(cn, <<>>, ord).surfaces :
              cn \in [DOMAIN cube_nodes -> WalkVals] \cup PrevCells,
              ord \in {CHOOSE o \in PopOrders : TRUE}}

WindTable == [poly \in WalkPolygons |-> Wind(poly)]

WindOf(poly) == IF poly \in DOMAIN WindTable THEN WindTable[poly] ELSE Wind(poly)

(* engine.py 239-303: the walk from one seed is over.  Recorded vertices   *)
(* make one patch: the winding orders them (any of the lists Wind allows   *)
(* for the first recorded vertex), the list is appended to cell_surfaces   *)
(* and surface_vertices is cleared.  recorded keeps the lists as the walk  *)
(* recorded them.                                                          *)
CloseStep ==
    /\ walk.pc = "visit"
    /\ walk.visit_next = <<>>
    /\ IF walk.surface_vertices # <<>>
       THEN \E ordered_vertices \in
                  WindOf({walk.surface_vertices[k] :
                             k \in DOMAIN walk.surface_vertices})[walk.surface_vertices[1]] :
               walk' = [walk EXCEPT !.pc = "seed",
                                    !.cell_surfaces = Append(@, ordered_vertices),
                                    !.recorded = Append(@, walk.surface_vertices),
                                    !.surface_vertices = Cleared(@)]
       ELSE walk' = [walk EXCEPT !.pc = "seed"]
    /\ UNCHANGED cell_noise
    /\ WalkFrame

(* engine.py 218, 305-308: unvisited is empty; a cell with patches adds    *)
(* its list to terrain_surfaces, edge_values is cleared.                   *)
CellEnd ==
    /\ walk.pc = "seed"
    /\ walk.unvisited = {}
    /\ walk' = [walk EXCEPT
                  !.pc = "cell",
                  !.i = @ + 1,
                  !.terrain_surfaces = IF walk.cell_surfaces # <<>>
                                       THEN Append(@, walk.cell_surfaces) ELSE @,
                  !.edge_values = <<>>]
    /\ UNCHANGED cell_noise
    /\ WalkFrame

(* engine.py 310: return terrain_surfaces                                  *)
WalkReturn ==
    /\ walk.pc = "cell"
    /\ walk.i > Len(walk.cells)
    /\ walk' = [walk EXCEPT !.pc = "done"]
    /\ UNCHANGED cell_noise
    /\ WalkFrame

WalkNext ==
    \/ CellBegin
    \/ SeedStep
    \/ VisitStep
    \/ CloseStep
    \/ CellEnd
    \/ WalkReturn

WalkSpec == WalkInit /\ [][WalkNext]_vars

(* The walk of the current cell is over: every seed was taken and every    *)
(* patch closed (engine.py 218, the loop condition fails).                 *)
WalkedCell == walk.pc = "seed" /\ walk.unvisited = {}

(* The edges of the cell whose endpoint samples have opposite sign.        *)
CrossingEdges(cn) == {e \in cube_edges : cn[e[1]] * cn[e[2]] < 0}

(* The places <<k, j>> of the entries of the lists of lists ss.            *)
Places(ss) == {<<k, j>> \in (DOMAIN ss) \X (1..12) : j <= Len(ss[k])}

RECURSIVE SumLen(_, _)
SumLen(ss, k) == IF k = 0 THEN 0 ELSE Len(ss[k]) + SumLen(ss, k - 1)

(* C21: when the walk of a cell without a zero corner is over, every       *)
(* crossing edge of the cell has its crossing point at exactly one place   *)
(* of exactly one polygon of the cell, every entry of a polygon is the     *)
(* crossing point of a crossing edge of this cell, and the lengths of the  *)
(* polygons add up to the number of crossing edges.                        *)
(* At every point of the walk the list being recorded holds crossing       *)
(* points of the current cell only, none of them in a closed polygon.      *)
C21_PolygonsPartitionCrossingEdges ==
    /\ walk.pc \in {"seed", "visit"} =>
          \A j \in DOMAIN walk.surface_vertices :
              /\ \E e \in CrossingEdges(cell_noise) :
                    walk.surface_vertices[j][1] = CellEdgeValues(cell_noise)[e]
              /\ \A p \in Places(walk.cell_surfaces) :
                    walk.cell_surfaces[p[1]][p[2]][1] # walk.surface_vertices[j][1]
    /\ WalkedCell =>
          LET ss == walk.cell_surfaces
              ev == CellEdgeValues(cell_noise)
          IN  /\ \A e \in CrossingEdges(cell_noise) :
                    Cardinality({p \in Places(ss) : ss[p[1]][p[2]][1] = ev[e]}) = 1
              /\ \A p \in Places(ss) :
                    \E e \in CrossingEdges(cell_noise) : ss[p[1]][p[2]][1] = ev[e]
              /\ SumLen(ss, Len(ss)) = Cardinality(CrossingEdges(cell_noise))

(* The second cell, after a cell that stored a polygon, has two polygons.  *)
C21_Witness ==
    /\ WalkedCell
    /\ walk.i = 2
    /\ walk.terrain_surfaces # <<>>
    /\ Len(walk.cell_surfaces) >= 2
    /\ SumLen(walk.cell_surfaces, Len(walk.cell_surfaces)) >= 8

(* The (vertex, normal) pairs the walk holds for the current cell: in the   *)
(* list being recorded and in the closed polygons.                         *)
HeldPairs ==
    {walk.surface_vertices[j] : j \in DOMAIN walk.surface_vertices}
        \cup {walk.cell_surfaces[p[1]][p[2]] : p \in Places(walk.cell_surfaces)}

UnitAxisVectors ==
    {<<1, 0, 0>>, <<-1, 0, 0>>, <<0, 1, 0>>, <<0, -1, 0>>, <<0, 0, 1>>, <<0, 0, -1>>}

(* C22: every normal held with a vertex is the offset of the negative      *)
(* corner minus the offset of the non-negative corner of the crossing edge *)
(* whose crossing point the vertex is, and so a unit axis vector from the  *)
(* non-negative to the negative side.                                      *)
C22_NormalsPointToNegativeCorner ==
    cell_noise # <<>> =>
        \A vn \in HeldPairs :
            /\ vn[2] \in UnitAxisVectors
            /\ \E e \in CrossingEdges(cell_noise) :
                  /\ vn[1] = CellEdgeValues(cell_noise)[e]
                  /\ \E neg \in {e[1], e[2]} : \E pos \in {e[1], e[2]} \ {neg} :
                        /\ cell_noise[neg] < 0
                        /\ ~(cell_noise[pos] < 0)
                        /\ vn[2] = vec_sub(neg, pos)

(* A cell whose polygons hold normals of both directions of one axis.      *)
C22_Witness ==
    /\ WalkedCell
    /\ \E a, b \in HeldPairs : a[2] = <<0, 0, 1>> /\ b[2] = <<0, 0, -1>>
    /\ \E a \in HeldPairs : a[2] = <<-1, 0, 0>>

----------------------------------------------------------------------------
(* The interpolation of lines 206-211 in floating point.  float64 is       *)
(* scaled down to a binary format with MantissaBits bits of mantissa,      *)
(* subnormals and round-to-nearest-even; a value is kept as its multiple   *)
(* of the smallest positive number, and 1.0 is the multiple One.           *)

MantissaBits == 3

FractionBits == 4

ExponentSteps == 6

RECURSIVE Pow2(_)
Pow2(k) == IF k = 0 THEN 1 ELSE 2 * Pow2(k - 1)

One == Pow2(FractionBits)

(* The non-negative numbers of the format.                                 *)
Floats == {m * Pow2(k) : m \in 0..(Pow2(MantissaBits) - 1), k \in 0..ExponentSteps}

(* The mantissa of f: normalized, or that of a subnormal.                  *)
Mantissa(f) ==
    CHOOSE m \in 0..(Pow2(MantissaBits) - 1) :
        \E k \in 0..ExponentSteps :
            f = m * Pow2(k) /\ (k = 0 \/ m >= Pow2(MantissaBits - 1))

(* The number of the format nearest to a / b (a >= 0, b > 0), a tie going  *)
(* to the even mantissa.                                                   *)
RoundNearest(a, b) ==
    LET lo == CHOOSE f \in Floats : f * b <= a /\ \A g \in Floats : g * b <= a => g <= f
        hi == CHOOSE f \in Floats : f * b >= a /\ \A g \in Floats : g * b >= a => g >= f
    IN  IF 2 * a < (lo + hi) * b THEN lo
        ELSE IF 2 * a > (lo + hi) * b THEN hi
        ELSE IF Mantissa(lo) % 2 = 0 THEN lo ELSE hi

(* a / b rounded, for any signs (b # 0).                                   *)
Round(a, b) ==
    LET n == IF b < 0 THEN -a ELSE a
    IN  IF n < 0 THEN -RoundNearest(-n, Abs(b)) ELSE RoundNearest(n, Abs(b))

float_mul(x, y) == Round(x * y, One)

float_add(x, y) == Round(x + y, 1)

float_sub(x, y) == Round(x - y, 1)

float_div(x, y) == Round(x * One, y)

(* The interpolation with the sum of the samples as the divisor.           *)
FloatIntersectionBySum(cnoise0, cnoise1) == float_div(cnoise0, float_add(cnoise0, cnoise1))

(* engine.py 207: intersection = cnoise0 / (cnoise0 - cnoise1)             *)
FloatIntersection(cnoise0, cnoise1) == float_div(cnoise0, float_sub(cnoise0, cnoise1))

(* engine.py 208-211: vec_add(vec_mul(vec_sub(corner1, corner0),           *)
(* intersection), corner0)                                                 *)
FloatVertex(corner0, corner1, intersection) ==
    [i \in 1..3 |->
        float_add(float_mul((corner1[i] - corner0[i]) * One, intersection),
                  corner0[i] * One)]

(* engine.py 201-212: the intersection and the vertex of every edge whose  *)
(* product of samples is negative.                                         *)
FloatEdgeValues(cn) ==
    [e \in {k \in cube_edges : float_mul(cn[k[1]], cn[k[2]]) < 0} |->
        CHOOSE r \in { [intersection |-> t, vertex |-> FloatVertex(e[1], e[2], t)] :
                          t \in {FloatIntersection(cn[e[1]], cn[e[2]])} } : TRUE]

(* Samples: every number of the format from -2.0 to 2.0.                   *)
FloatSamples ==
    {f \in Floats : f <= 2 * One} \cup {-f : f \in {g \in Floats : g <= 2 * One}}

(* Cells with one sample at one corner and another at the other seven.     *)
InterpInit ==
    /\ \E k \in DOMAIN cube_nodes : \E v0, v1 \in FloatSamples :
          cell_noise = [c \in DOMAIN cube_nodes |-> IF c = k THEN v1 ELSE v0]
    /\ cell_out = <<>>
    /\ pop_order = <<>>
    /\ noise_field = NoField
    /\ StoreUnused /\ ChunkUnused /\ ProbeUnused /\ ClassUnused
    /\ CallersUnused /\ WalkUnused /\ GraphUnused

Interpolate ==
    /\ cell_out = <<>>
    /\ cell_out' = << [edge_values |-> FloatEdgeValues(cell_noise)] >>
    /\ UNCHANGED <<chunk_class, ctor, callers, walk, graph, noise_field, pop_order, chunks,
                   built, returned, last, cell_noise, chunk_pos, chunk_out, probe>>

InterpNext == Interpolate

InterpSpec == InterpInit /\ [][InterpNext]_vars

Interpolated == cell_out # <<>> /\ DOMAIN cell_out[1] = {"edge_values"}

(* C23 as stated: for every crossing edge the interpolation parameter is   *)
(* strictly between 0 and 1, the vertex is strictly between the two        *)
(* corners of the edge, and every coordinate of it is within [0, 1].       *)
C23_ParameterStrictlyInside ==
    Interpolated =>
        \A e \in DOMAIN cell_out[1].edge_values :
            LET r == cell_out[1].edge_values[e]
            IN  /\ 0 < r.intersection /\ r.intersection < One
                /\ r.vertex # [i \in 1..3 |-> e[1][i] * One]
                /\ r.vertex # [i \in 1..3 |-> e[2][i] * One]
                /\ \A i \in 1..3 : 0 <= r.vertex[i] /\ r.vertex[i] <= One

(* C23, amended: for every crossing edge the interpolation parameter is    *)
(* within [0, 1], both ends included, the vertex lies on the edge, its     *)
(* ends included (the coordinate along the edge within [0, 1], the other   *)
(* two those of the corners), and the parameter is 1 exactly when the      *)
(* vertex is corner1, 0 exactly when it is corner0.                        *)
C23_ParameterWithinClosedInterval ==
    Interpolated =>
        \A e \in DOMAIN cell_out[1].edge_values :
            LET r == cell_out[1].edge_values[e]
            IN  /\ 0 <= r.intersection /\ r.intersection <= One
                /\ \A i \in 1..3 :
                      /\ 0 <= r.vertex[i] /\ r.vertex[i] <= One
                      /\ e[1][i] = e[2][i] => r.vertex[i] = e[1][i] * One
                /\ r.intersection = One <=> r.vertex = [i \in 1..3 |-> e[2][i] * One]
                /\ r.intersection = 0 <=> r.vertex = [i \in 1..3 |-> e[1][i] * One]

(* A cell with an edge whose parameter is rounded to 1 and an edge whose   *)
(* parameter is rounded to 0.                                              *)
C23_Witness ==
    /\ Interpolated
    /\ \E e \in DOMAIN cell_out[1].edge_values :
          cell_out[1].edge_values[e].intersection = One
    /\ \E e \in DOMAIN cell_out[1].edge_values :
          cell_out[1].edge_values[e].intersection = 0

----------------------------------------------------------------------------
(* The walk with progress: a statement that can run does run.  The call    *)
(* is made for every single cell over WalkVals.                            *)
WalkLiveInit ==
    /\ pop_order \in PopOrders
    /\ cell_noise = <<>>
    /\ \E cur \in [DOMAIN cube_nodes -> WalkVals] :
          walk = [pc |-> "cell", cells |-> <<cur>>, i |-> 1,
                  terrain_surfaces |-> <<>>, edge_values |-> <<>>,
                  unvisited |-> {}, visit_next |-> <<>>,
                  surface_vertices |-> <<>>, cell_surfaces |-> <<>>,
                  recorded |-> <<>>, taken |-> NoCount, visited |-> NoCount,
                  err |-> FALSE]
    /\ cell_out = <<>>
    /\ noise_field = NoField
    /\ StoreUnused /\ ChunkUnused /\ ProbeUnused /\ ClassUnused /\ CallersUnused
    /\ GraphUnused

WalkLiveSpec == WalkLiveInit /\ [][WalkNext]_vars /\ WF_vars(WalkNext)

(* C24: the call returns (every walk of every cell terminates); no corner  *)
(* of a cell is taken out of unvisited or popped from visit_next more than *)
(* once, and when the walk of a cell is over every one of the eight        *)
(* corners was taken out of unvisited once, as a seed or as a pushed       *)
(* neighbour, and visited once.                                            *)
C24_WalkTerminatesEachCornerOnce ==
    /\ [](\A c \in DOMAIN cube_nodes : walk.taken[c] <= 1 /\ walk.visited[c] <= 1)
    /\ [](WalkedCell =>
            /\ Cardinality(DOMAIN cube_nodes) = 8
            /\ \A c \in DOMAIN cube_nodes : walk.taken[c] = 1 /\ walk.visited[c] = 1)
    /\ <>(walk.pc = "done")

(* The walk of a cell is over in which one seed led to several corners and *)
(* other corners were seeds of their own.                                  *)
C24_Witness ==
    /\ WalkedCell
    /\ \A c \in DOMAIN cube_nodes : walk.taken[c] = 1 /\ walk.visited[c] = 1
    /\ Cardinality(NonNegative(cell_noise)) = 5
    /\ Len(walk.recorded) = 2

(* The number of places of the list s that hold x.                         *)
Occurrences(s, x) == Cardinality({j \in DOMAIN s : s[j] = x})

(* C28: the winding only reorders.  Every polygon appended to              *)
(* cell_surfaces has the length of the list the walk recorded for it and   *)
(* holds every (vertex, normal) pair as often as that list does: nothing   *)
(* is added, dropped or duplicated; and there is one stored polygon per    *)
(* recorded list.                                                          *)
C28_WindingOnlyReorders ==
    cell_noise # <<>> =>
        /\ Len(walk.cell_surfaces) = Len(walk.recorded)
        /\ \A k \in DOMAIN walk.cell_surfaces :
              /\ Len(walk.cell_surfaces[k]) = Len(walk.recorded[k])
              /\ \A j \in DOMAIN walk.recorded[k] :
                    Occurrences(walk.cell_surfaces[k], walk.recorded[k][j])
                        = Occurrences(walk.recorded[k], walk.recorded[k][j])
              /\ \A j \in DOMAIN walk.cell_surfaces[k] :
                    Occurrences(walk.recorded[k], walk.cell_surfaces[k][j])
                        = Occurrences(walk.cell_surfaces[k], walk.cell_surfaces[k][j])
              /\ \A j \in DOMAIN walk.recorded[k] :
                    Occurrences(walk.recorded[k], walk.recorded[k][j]) = 1

(* A cell whose walk is over with a stored polygon of five or more         *)
(* vertices in an order other than the recorded one.                       *)
C28_Witness ==
    /\ WalkedCell
    /\ \E k \in DOMAIN walk.cell_surfaces :
          /\ Len(walk.cell_surfaces[k]) >= 5
          /\ walk.cell_surfaces[k] # walk.recorded[k]
          /\ walk.cell_surfaces[k][1] = walk.recorded[k][1]

----------------------------------------------------------------------------
(* Calls on one Graph object (src/crnstc/graph.py).  graph holds the       *)
(* object, the last call made on it and whether that call raised; an       *)
(* exception leaves the object as the statements before it made it, and    *)
(* the caller can go on using it.                                          *)

GraphKeys == {<<0, 0, 0>>, <<1, 0, 0>>, <<0, 1, 0>>}

GraphData == {NoData, "data"}

NoCall == [op |-> "none"]

(* graph.py 2-5: Graph()                                                   *)
GraphInit ==
    /\ graph = [g |-> EmptyGraph, call |-> NoCall, raised |-> FALSE]
    /\ noise_field = NoField
    /\ pop_order = <<>>
    /\ StoreUnused /\ CellUnused /\ ChunkUnused /\ ProbeUnused /\ ClassUnused
    /\ CallersUnused /\ WalkUnused

GraphFrame ==
    UNCHANGED <<noise_field, pop_order, chunks, built, returned, last, cell_noise,
                cell_out, chunk_pos, chunk_out, probe, chunk_class, ctor, callers, walk>>

(* The neighbours a call finds for key.                                    *)
Degree(g, key) == IF key \in DOMAIN g.nodes THEN Cardinality(g.nodes[key]) ELSE 0

AddNode(key, data) ==
    /\ graph' = [g |-> add_node(graph.g, key, data),
                 call |-> [op |-> "add_node", key |-> key,
                           present |-> key \in DOMAIN graph.g.nodes,
                           degree |-> Degree(graph.g, key)],
                 raised |-> FALSE]
    /\ GraphFrame

AddEdge(a, b, data) ==
    /\ graph' = [g |-> add_edge(graph.g, a, b, data),
                 call |-> [op |-> "add_edge", key |-> a,
                           present |-> a \in DOMAIN graph.g.nodes,
                           degree |-> Degree(graph.g, a)],
                 raised |-> FALSE]
    /\ GraphFrame

RemoveEdge(a, b) ==
    /\ \E r \in {remove_edge(graph.g, a, b)} :
          graph' = [g |-> r.g,
                    call |-> [op |-> "remove_edge", key |-> a,
                              present |-> a \in DOMAIN graph.g.nodes,
                              degree |-> Degree(graph.g, a)],
                    raised |-> r.raised]
    /\ GraphFrame

RemoveNode(key) ==
    /\ \E r \in remove_node(graph.g, key) :
          graph' = [g |-> r.g,
                    call |-> [op |-> "remove_node", key |-> key,
                              present |-> key \in DOMAIN graph.g.nodes,
                              degree |-> Degree(graph.g, key)],
                    raised |-> r.raised]
    /\ GraphFrame

(* Calls of add_node, add_edge and remove_edge in any order.               *)
GraphEdgeNext ==
    \/ \E key \in GraphKeys, data \in GraphData : AddNode(key, data)
    \/ \E a \in GraphKeys, b \in GraphKeys : AddEdge(a, b, NoData)
    \/ \E a \in GraphKeys, b \in GraphKeys : RemoveEdge(a, b)

GraphEdgeSpec == GraphInit /\ [][GraphEdgeNext]_vars

(* Calls of all four methods in any order.                                 *)
GraphNext ==
    \/ GraphEdgeNext
    \/ \E key \in GraphKeys : RemoveNode(key)

GraphSpec == GraphInit /\ [][GraphNext]_vars

(* C29: after any sequence of add_node, add_edge and remove_edge calls,    *)
(* adjacency is symmetric and agrees with the edge table: for all nodes a  *)
(* and b, b is in nodes[a] exactly if a is in nodes[b], and exactly if     *)
(* edge_key(a, b) is a key of edges.                                       *)
C29_AdjacencySymmetricAndConsistent ==
    graph # <<>> =>
        \A a \in GraphKeys, b \in GraphKeys :
            LET ab == a \in DOMAIN graph.g.nodes /\ b \in graph.g.nodes[a]
                ba == b \in DOMAIN graph.g.nodes /\ a \in graph.g.nodes[b]
            IN  /\ ab <=> ba
                /\ ab <=> edge_key(a, b) \in DOMAIN graph.g.edges

(* C30: after remove_node(k) on a node k of the graph, k is no key of      *)
(* nodes or node_data, no node lists k as a neighbour and no key of edges  *)
(* has k as an endpoint, whether k had zero, one or several neighbours.    *)
C30_RemoveNodeRemovesEverything ==
    (graph # <<>> /\ graph.call.op = "remove_node" /\ graph.call.present) =>
        LET k == graph.call.key
        IN  /\ k \notin DOMAIN graph.g.nodes
            /\ k \notin DOMAIN graph.g.node_data
            /\ \A n \in DOMAIN graph.g.nodes : k \notin graph.g.nodes[n]
            /\ \A e \in DOMAIN graph.g.edges : e[1] # k /\ e[2] # k

====
